---- MODULE Spec2Model ----
(***************************************************************************)
(* The CSV parsers of the Alertify dashboard pages:                        *)
(*   alerts  : src/dashboard/script.js  parseCSV                           *)
(*   news    : src/unnamed/part_000     parseCSV                           *)
(*   weather : src/unnamed/part_001     parseCSV                           *)
(*   fuel    : src/unnamed/part_002     parseCSV                           *)
(* A JavaScript string is a sequence of one-character strings.  A          *)
(* JavaScript value is a record of one fixed shape (see Str, Num, ...).    *)
(***************************************************************************)
EXTENDS Integers, Sequences, FiniteSets, TLC

\* ------------------------------------------------------------------------
\* Characters and the String.prototype methods the parsers call
\* ------------------------------------------------------------------------
DQ == "\""
COMMA == ","
NL == "\n"
WhiteSpace == {" ", "\n", "\r", "\t"}
Digits == {"0", "1", "2", "3", "4", "5", "6", "7", "8", "9"}
UpperCase == <<"A", "B", "C", "D", "E", "F", "G", "H", "I", "J", "K", "L", "M",
               "N", "O", "P", "Q", "R", "S", "T", "U", "V", "W", "X", "Y", "Z">>
LowerCase == <<"a", "b", "c", "d", "e", "f", "g", "h", "i", "j", "k", "l", "m",
               "n", "o", "p", "q", "r", "s", "t", "u", "v", "w", "x", "y", "z">>

\* String.prototype.toLowerCase, one character
LowerChar(c) ==
    IF \E k \in 1..26 : UpperCase[k] = c
    THEN LowerCase[CHOOSE k \in 1..26 : UpperCase[k] = c]
    ELSE c

\* String.prototype.toLowerCase
toLowerCase(s) == [k \in 1..Len(s) |-> LowerChar(s[k])]

RECURSIVE TrimLeft(_)
TrimLeft(s) ==
    IF s = <<>> THEN <<>>
    ELSE IF Head(s) \in WhiteSpace THEN TrimLeft(Tail(s)) ELSE s

RECURSIVE TrimRight(_)
TrimRight(s) ==
    IF s = <<>> THEN <<>>
    ELSE IF s[Len(s)] \in WhiteSpace THEN TrimRight(SubSeq(s, 1, Len(s) - 1)) ELSE s

\* String.prototype.trim
trim(s) == TrimRight(TrimLeft(s))

\* String.prototype.startsWith / endsWith with a one-character argument
startsWith(s, c) == Len(s) >= 1 /\ s[1] = c
endsWith(s, c) == Len(s) >= 1 /\ s[Len(s)] = c

\* String.prototype.slice(1, -1)
slice1(s) == SubSeq(s, 2, Len(s) - 1)

\* String.prototype.includes
includes(s, sub) ==
    \E k \in 1..(Len(s) - Len(sub) + 1) : SubSeq(s, k, k + Len(sub) - 1) = sub

\* String.prototype.split with a one-character separator
\* (the pieces between the separators, from the separators' positions)
split(s, sep) ==
    LET at == {q \in 1..Len(s) : s[q] = sep}
        n == Cardinality(at)
        cut == [i \in 0..(n + 1) |->
                   IF i = 0 THEN 0
                   ELSE IF i = n + 1 THEN Len(s) + 1
                   ELSE CHOOSE q \in at : Cardinality({r \in at : r < q}) = i - 1]
    IN [i \in 1..(n + 1) |-> SubSeq(s, cut[i - 1] + 1, cut[i] - 1)]

\* faulty variant of replaceDQ: the doubled quotes are left as written
replaceDQ_Keep(s) == s

\* String.prototype.replace(/""/g, '"'): leftmost non-overlapping pairs
RECURSIVE replaceDQ(_)
replaceDQ(s) ==
    IF Len(s) < 2 THEN s
    ELSE IF s[1] = DQ /\ s[2] = DQ THEN <<DQ>> \o replaceDQ(SubSeq(s, 3, Len(s)))
    ELSE <<s[1]>> \o replaceDQ(Tail(s))

\* ------------------------------------------------------------------------
\* JavaScript values
\* ------------------------------------------------------------------------
\* a decimal number m * 10^e, normalised; NaN and Infinity are kinds of their own
Str(s) == [t |-> "str", s |-> s, m |-> 0, e |-> 0, items |-> <<>>, keys |-> <<>>]
Undefined == [t |-> "undefined", s |-> <<>>, m |-> 0, e |-> 0, items |-> <<>>, keys |-> <<>>]
NaN == [t |-> "nan", s |-> <<>>, m |-> 0, e |-> 0, items |-> <<>>, keys |-> <<>>]
Infinity(sign) == [t |-> "inf", s |-> <<>>, m |-> sign, e |-> 0, items |-> <<>>, keys |-> <<>>]
RECURSIVE Normalise(_, _)
Normalise(m, e) ==
    IF m = 0 THEN [m |-> 0, e |-> 0]
    ELSE IF m % 10 = 0 THEN Normalise(m \div 10, e + 1)
    ELSE [m |-> m, e |-> e]
Num(m, e) == [t |-> "num", s |-> <<>>, m |-> Normalise(m, e).m, e |-> Normalise(m, e).e,
              items |-> <<>>, keys |-> <<>>]
Zero == Num(0, 0)
Arr(items) == [t |-> "array", s |-> <<>>, m |-> 0, e |-> 0, items |-> items, keys |-> <<>>]
Obj(keys, items) == [t |-> "object", s |-> <<>>, m |-> 0, e |-> 0, items |-> items, keys |-> keys]
Lit(name) == [t |-> name, s |-> <<>>, m |-> 0, e |-> 0, items |-> <<>>, keys |-> <<>>]

\* ToBoolean
Truthy(v) ==
    CASE v.t = "str" -> v.s # <<>>
      [] v.t = "num" -> v.m # 0
      [] v.t \in {"undefined", "nan", "null", "false"} -> FALSE
      [] OTHER -> TRUE

\* a || b
OrElse(a, b) == IF Truthy(a) THEN a ELSE b

\* property read obj[key] on a plain record object
Get(obj, key) == IF key \in DOMAIN obj THEN obj[key] ELSE Undefined

\* property write obj[key] = value
Put(obj, key, value) ==
    [k \in DOMAIN obj \cup {key} |-> IF k = key THEN value ELSE obj[k]]

EmptyObject == [k \in {} |-> Undefined]

\* Array read values[index] (index counted from 0)
At(values, index) == IF index + 1 \in DOMAIN values THEN Str(values[index + 1]) ELSE Undefined

\* ------------------------------------------------------------------------
\* String literals of the sources
\* ------------------------------------------------------------------------
W_title == <<"t", "i", "t", "l", "e">>
W_headline == <<"h", "e", "a", "d", "l", "i", "n", "e">>
W_summary == <<"s", "u", "m", "m", "a", "r", "y">>
W_description == <<"d", "e", "s", "c", "r", "i", "p", "t", "i", "o", "n">>
W_content == <<"c", "o", "n", "t", "e", "n", "t">>
W_category == <<"c", "a", "t", "e", "g", "o", "r", "y">>
W_type == <<"t", "y", "p", "e">>
W_subcategory == <<"s", "u", "b", "c", "a", "t", "e", "g", "o", "r", "y">>
W_sub_type == <<"s", "u", "b", "_", "t", "y", "p", "e">>
W_location == <<"l", "o", "c", "a", "t", "i", "o", "n">>
W_region == <<"r", "e", "g", "i", "o", "n">>
W_area == <<"a", "r", "e", "a">>
W_impact == <<"i", "m", "p", "a", "c", "t">>
W_severity == <<"s", "e", "v", "e", "r", "i", "t", "y">>
W_importance == <<"i", "m", "p", "o", "r", "t", "a", "n", "c", "e">>
W_date == <<"d", "a", "t", "e">>
W_time == <<"t", "i", "m", "e">>
W_timestamp == <<"t", "i", "m", "e", "s", "t", "a", "m", "p">>
W_published_date == <<"p", "u", "b", "l", "i", "s", "h", "e", "d", "_", "d", "a", "t", "e">>
W_uncategorized == <<"u", "n", "c", "a", "t", "e", "g", "o", "r", "i", "z", "e", "d">>
W_community == <<"c", "o", "m", "m", "u", "n", "i", "t", "y">>
W_traffic == <<"t", "r", "a", "f", "f", "i", "c">>
W_transport == <<"t", "r", "a", "n", "s", "p", "o", "r", "t">>
W_weather == <<"w", "e", "a", "t", "h", "e", "r">>
W_safety == <<"s", "a", "f", "e", "t", "y">>
W_security == <<"s", "e", "c", "u", "r", "i", "t", "y">>
W_crime == <<"c", "r", "i", "m", "e">>
W_criminal == <<"c", "r", "i", "m", "i", "n", "a", "l">>
W_government == <<"g", "o", "v", "e", "r", "n", "m", "e", "n", "t">>
W_govt == <<"g", "o", "v", "t">>
W_politics == <<"p", "o", "l", "i", "t", "i", "c", "s">>
W_economy == <<"e", "c", "o", "n", "o", "m", "y">>
W_economic == <<"e", "c", "o", "n", "o", "m", "i", "c">>
W_finance == <<"f", "i", "n", "a", "n", "c", "e">>
W_health == <<"h", "e", "a", "l", "t", "h">>
W_medical == <<"m", "e", "d", "i", "c", "a", "l">>
W_environment == <<"e", "n", "v", "i", "r", "o", "n", "m", "e", "n", "t">>
W_ecological == <<"e", "c", "o", "l", "o", "g", "i", "c", "a", "l">>
W_social == <<"s", "o", "c", "i", "a", "l">>
W_local == <<"l", "o", "c", "a", "l">>
W_regional == <<"r", "e", "g", "i", "o", "n", "a", "l">>
W_forecast == <<"f", "o", "r", "e", "c", "a", "s", "t">>
W_alerts == <<"a", "l", "e", "r", "t", "s">>
W_temperature == <<"t", "e", "m", "p", "e", "r", "a", "t", "u", "r", "e">>
W_feels_like == <<"f", "e", "e", "l", "s", "_", "l", "i", "k", "e">>
W_humidity == <<"h", "u", "m", "i", "d", "i", "t", "y">>
W_wind_speed == <<"w", "i", "n", "d", "_", "s", "p", "e", "e", "d">>
W_rain == <<"r", "a", "i", "n">>
W_date_str == <<"d", "a", "t", "e", "_", "s", "t", "r">>

\* ------------------------------------------------------------------------
\* Tokenizers
\* ------------------------------------------------------------------------
\* faulty variant of SimpleScan: a comma ends the field inside quotes too
RECURSIVE SimpleScan_SplitInQuotes(_, _, _, _, _)
SimpleScan_SplitInQuotes(line, i, current, inQuotes, values) ==
    IF i > Len(line) THEN Append(values, trim(current))
    ELSE IF line[i] = DQ THEN SimpleScan_SplitInQuotes(line, i + 1, current, ~inQuotes, values)
    ELSE IF line[i] = COMMA
         THEN SimpleScan_SplitInQuotes(line, i + 1, <<>>, inQuotes, Append(values, trim(current)))
    ELSE SimpleScan_SplitInQuotes(line, i + 1, Append(current, line[i]), inQuotes, values)

\* faulty variant of SimpleScan: the double quote is appended to the field
RECURSIVE SimpleScan_KeepQuotes(_, _, _, _, _)
SimpleScan_KeepQuotes(line, i, current, inQuotes, values) ==
    IF i > Len(line) THEN Append(values, trim(current))
    ELSE IF line[i] = DQ
         THEN SimpleScan_KeepQuotes(line, i + 1, Append(current, line[i]), ~inQuotes, values)
    ELSE IF line[i] = COMMA /\ ~inQuotes
         THEN SimpleScan_KeepQuotes(line, i + 1, <<>>, inQuotes, Append(values, trim(current)))
    ELSE SimpleScan_KeepQuotes(line, i + 1, Append(current, line[i]), inQuotes, values)

\* the character scan of the alerts and news pages: a double quote toggles
\* inQuotes and is never appended, a comma outside quotes ends the field
RECURSIVE SimpleScan(_, _, _, _, _)
SimpleScan(line, i, current, inQuotes, values) ==
    IF i > Len(line) THEN Append(values, trim(current))
    ELSE IF line[i] = DQ THEN SimpleScan(line, i + 1, current, ~inQuotes, values)
    ELSE IF line[i] = COMMA /\ ~inQuotes
         THEN SimpleScan(line, i + 1, <<>>, inQuotes, Append(values, trim(current)))
    ELSE SimpleScan(line, i + 1, Append(current, line[i]), inQuotes, values)
SimpleTokens(line) == SimpleScan(line, 1, <<>>, FALSE, <<>>)

\* the sub-pattern (?:(?:"")*[^"]*)* : text in which double quotes come in pairs
RECURSIVE PairedQuotes(_)
PairedQuotes(x) ==
    IF x = <<>> THEN TRUE
    ELSE IF Head(x) # DQ THEN PairedQuotes(Tail(x))
    ELSE Len(x) >= 2 /\ x[2] = DQ /\ PairedQuotes(SubSeq(x, 3, Len(x)))

\* ends (1-based, inclusive) of the matches of "(?:(?:"")*[^"]*)*" that start at q
QuotedEnds(s, q) ==
    IF q > Len(s) \/ s[q] # DQ THEN {}
    ELSE {e \in (q + 1)..Len(s) : s[e] = DQ /\ PairedQuotes(SubSeq(s, q + 1, e - 1))}

\* end of the match of [^",\n]* that starts at q (q - 1 when it is empty)
RECURSIVE PlainEnd(_, _)
PlainEnd(s, q) ==
    IF q > Len(s) \/ s[q] \in {DQ, COMMA, NL} THEN q - 1 ELSE PlainEnd(s, q + 1)

\* the capture group at q: the quoted alternative is tried first and, being
\* greedy, takes its longest match; otherwise the plain alternative
GroupEnd(s, q) ==
    IF QuotedEnds(s, q) # {}
    THEN CHOOSE e \in QuotedEnds(s, q) : \A f \in QuotedEnds(s, q) : f <= e
    ELSE PlainEnd(s, q)

\* the prefix (?:,|\n|^) at 0-based position p
PrefixMatches(s, p) == (p < Len(s) /\ s[p + 1] \in {COMMA, NL}) \/ p = 0
PrefixLen(s, p) == IF p < Len(s) /\ s[p + 1] \in {COMMA, NL} THEN 1 ELSE 0

\* regex.exec(s) with the g flag: the leftmost match at or after lastIndex
RegexExec(s, lastIndex) ==
    LET starts == {p \in lastIndex..Len(s) : PrefixMatches(s, p)}
    IN IF starts = {} THEN [found |-> FALSE, index |-> 0, end |-> 0, group |-> <<>>]
       ELSE LET p == CHOOSE x \in starts : \A y \in starts : x <= y
                q == p + PrefixLen(s, p) + 1
                e == GroupEnd(s, q)
            IN [found |-> TRUE, index |-> p, end |-> e, group |-> SubSeq(s, q, e)]

\* the while loop around regex.exec: exec leaves lastIndex at the end of the
\* match, so an empty match is found again for ever (diverged)
RECURSIVE RegexLoop(_, _, _)
RegexLoop(s, lastIndex, values) ==
    LET match == RegexExec(s, lastIndex)
        value == IF startsWith(match.group, DQ) /\ endsWith(match.group, DQ)
                 THEN replaceDQ(slice1(match.group))
                 ELSE match.group
    IN IF ~match.found THEN [diverged |-> FALSE, values |-> values]
       ELSE IF match.end = lastIndex THEN [diverged |-> TRUE, values |-> values]
       ELSE RegexLoop(s, match.end, Append(values, trim(value)))
RegexTokens(line) == RegexLoop(Append(line, COMMA), 0, <<>>)

\* the fuel page: line.split(',').map(v => v.trim())
SplitTokens(line) == [k \in 1..Len(split(line, COMMA)) |-> trim(split(line, COMMA)[k])]

\* ------------------------------------------------------------------------
\* parseFloat
\* ------------------------------------------------------------------------
W_Infinity == <<"I", "n", "f", "i", "n", "i", "t", "y">>
W_undefined == <<"u", "n", "d", "e", "f", "i", "n", "e", "d">>
DigitVal(c) == CHOOSE d \in 0..9 : <<"0", "1", "2", "3", "4", "5", "6", "7", "8", "9">>[d + 1] = c

\* number of leading decimal digits of s from position k on
RECURSIVE DigitRun(_, _)
DigitRun(s, k) == IF k <= Len(s) /\ s[k] \in Digits THEN 1 + DigitRun(s, k + 1) ELSE 0

\* value of the n digits of s from position k on
RECURSIVE DigitsValue(_, _, _)
DigitsValue(s, k, n) ==
    IF n = 0 THEN 0 ELSE 10 * DigitsValue(s, k, n - 1) + DigitVal(s[k + n - 1])

RECURSIVE NumDigits(_)
NumDigits(m) == IF m < 10 THEN 1 ELSE 1 + NumDigits(m \div 10)

\* the double nearest to m * 10^e, as far as this model tells doubles apart:
\* beyond the largest double it is Infinity, below the smallest it is 0
ToDouble(sign, m, e) ==
    IF m = 0 THEN Zero
    ELSE IF NumDigits(m) + e > 309 THEN Infinity(sign)
    ELSE IF NumDigits(m) + e < -323 THEN Zero
    ELSE Num(sign * m, e)

\* parseFloat(string): the longest prefix of the left-trimmed text that is a
\* StrDecimalLiteral, NaN if there is none
parseFloatStr(text) ==
    LET s == TrimLeft(text)
        signed == Len(s) >= 1 /\ s[1] \in {"+", "-"}
        sign == IF Len(s) >= 1 /\ s[1] = "-" THEN -1 ELSE 1
        k == IF signed THEN 2 ELSE 1
        n1 == DigitRun(s, k)
        dot == k + n1 <= Len(s) /\ s[k + n1] = "."
        n2 == IF dot THEN DigitRun(s, k + n1 + 1) ELSE 0
        x == k + n1 + (IF dot THEN 1 + n2 ELSE 0)
        hasE == x <= Len(s) /\ s[x] \in {"e", "E"}
        esigned == hasE /\ x + 1 <= Len(s) /\ s[x + 1] \in {"+", "-"}
        esign == IF esigned /\ s[x + 1] = "-" THEN -1 ELSE 1
        ek == IF esigned THEN x + 2 ELSE x + 1
        n3 == IF hasE THEN DigitRun(s, ek) ELSE 0
        exp == IF n3 > 0 THEN esign * DigitsValue(s, ek, n3) ELSE 0
        mant == DigitsValue(s, k, n1) * (10 ^ n2) +
                (IF dot THEN DigitsValue(s, k + n1 + 1, n2) ELSE 0)
    IN IF Len(s) >= k + 7 /\ SubSeq(s, k, k + 7) = W_Infinity THEN Infinity(sign)
       ELSE IF n1 + n2 = 0 THEN NaN
       ELSE ToDouble(sign, mant, exp - n2)

\* parseFloat(value): the argument is first converted to a string
parseFloat(v) ==
    CASE v.t = "str" -> parseFloatStr(v.s)
      [] v.t = "undefined" -> parseFloatStr(W_undefined)
      [] OTHER -> NaN

\* ------------------------------------------------------------------------
\* JSON.parse
\* ------------------------------------------------------------------------
JsonFail == [ok |-> FALSE, pos |-> 0, val |-> Undefined]
JsonOk(pos, val) == [ok |-> TRUE, pos |-> pos, val |-> val]
JsonWS == {" ", "\t", "\n", "\r"}
W_true == <<"t", "r", "u", "e">>
W_false == <<"f", "a", "l", "s", "e">>
W_null == <<"n", "u", "l", "l">>

RECURSIVE SkipWS(_, _)
SkipWS(s, k) == IF k <= Len(s) /\ s[k] \in JsonWS THEN SkipWS(s, k + 1) ELSE k

HasAt(s, k, w) == k + Len(w) - 1 <= Len(s) /\ SubSeq(s, k, k + Len(w) - 1) = w

\* a JSON string whose opening quote is at k - 1; acc holds the decoded text
RECURSIVE JsonString(_, _, _)
JsonString(s, k, acc) ==
    IF k > Len(s) THEN JsonFail
    ELSE IF s[k] = DQ THEN JsonOk(k + 1, Str(acc))
    ELSE IF s[k] \in {"\n", "\r", "\t"} THEN JsonFail
    ELSE IF s[k] = "\\"
         THEN IF k + 1 <= Len(s) /\ s[k + 1] \in {DQ, "\\", "/"}
              THEN JsonString(s, k + 2, Append(acc, s[k + 1]))
              ELSE IF k + 1 <= Len(s) /\ s[k + 1] = "n" THEN JsonString(s, k + 2, Append(acc, "\n"))
              ELSE IF k + 1 <= Len(s) /\ s[k + 1] = "r" THEN JsonString(s, k + 2, Append(acc, "\r"))
              ELSE IF k + 1 <= Len(s) /\ s[k + 1] = "t" THEN JsonString(s, k + 2, Append(acc, "\t"))
              ELSE JsonFail
    ELSE JsonString(s, k + 1, Append(acc, s[k]))

\* a JSON number that starts at k: -? (0 | [1-9] digits) (. digits+)? ([eE] [+-]? digits+)?
JsonNumber(s, k) ==
    LET neg == s[k] = "-"
        i == IF neg THEN k + 1 ELSE k
        n1 == IF i <= Len(s) /\ s[i] = "0" THEN 1 ELSE DigitRun(s, i)
        dot == i + n1 <= Len(s) /\ s[i + n1] = "."
        n2 == IF dot THEN DigitRun(s, i + n1 + 1) ELSE 0
        x == i + n1 + (IF dot THEN 1 + n2 ELSE 0)
        hasE == x <= Len(s) /\ s[x] \in {"e", "E"}
        esigned == hasE /\ x + 1 <= Len(s) /\ s[x + 1] \in {"+", "-"}
        esign == IF esigned /\ s[x + 1] = "-" THEN -1 ELSE 1
        ek == IF esigned THEN x + 2 ELSE x + 1
        n3 == IF hasE THEN DigitRun(s, ek) ELSE 0
        mant == DigitsValue(s, i, n1) * (10 ^ n2) +
                (IF dot THEN DigitsValue(s, i + n1 + 1, n2) ELSE 0)
    IN IF n1 = 0 \/ (dot /\ n2 = 0) \/ (hasE /\ n3 = 0) THEN JsonFail
       ELSE JsonOk(IF hasE THEN ek + n3 ELSE x,
                   ToDouble(IF neg THEN -1 ELSE 1, mant,
                            (IF hasE THEN esign * DigitsValue(s, ek, n3) ELSE 0) - n2))

\* obj[key] = value on the parallel key and value lists of an object
SetMember(o, key, value) ==
    IF \E j \in 1..Len(o.keys) : o.keys[j] = key
    THEN Obj(o.keys, [j \in 1..Len(o.items) |-> IF o.keys[j] = key THEN value ELSE o.items[j]])
    ELSE Obj(Append(o.keys, key), Append(o.items, value))

RECURSIVE JsonValue(_, _)
RECURSIVE JsonElements(_, _, _)
RECURSIVE JsonMembers(_, _, _)

\* the elements of an array after '[' or ',', up to and including ']'
JsonElements(s, k, acc) ==
    LET r == JsonValue(s, k)
        j == SkipWS(s, r.pos)
    IN IF ~r.ok \/ j > Len(s) THEN JsonFail
       ELSE IF s[j] = COMMA THEN JsonElements(s, j + 1, Append(acc, r.val))
       ELSE IF s[j] = "]" THEN JsonOk(j + 1, Arr(Append(acc, r.val)))
       ELSE JsonFail

\* the members of an object after '{' or ',', up to and including '}'
JsonMembers(s, k, acc) ==
    LET i == SkipWS(s, k)
        key == IF i <= Len(s) /\ s[i] = DQ THEN JsonString(s, i + 1, <<>>) ELSE JsonFail
        c == SkipWS(s, key.pos)
        r == IF key.ok /\ c <= Len(s) /\ s[c] = ":" THEN JsonValue(s, c + 1) ELSE JsonFail
        j == SkipWS(s, r.pos)
    IN IF ~r.ok \/ j > Len(s) THEN JsonFail
       ELSE IF s[j] = COMMA THEN JsonMembers(s, j + 1, SetMember(acc, key.val.s, r.val))
       ELSE IF s[j] = "}" THEN JsonOk(j + 1, SetMember(acc, key.val.s, r.val))
       ELSE JsonFail

JsonValue(s, k) ==
    LET i == SkipWS(s, k)
    IN IF i > Len(s) THEN JsonFail
       ELSE IF s[i] = "["
            THEN IF SkipWS(s, i + 1) <= Len(s) /\ s[SkipWS(s, i + 1)] = "]"
                 THEN JsonOk(SkipWS(s, i + 1) + 1, Arr(<<>>))
                 ELSE JsonElements(s, i + 1, <<>>)
       ELSE IF s[i] = "{"
            THEN IF SkipWS(s, i + 1) <= Len(s) /\ s[SkipWS(s, i + 1)] = "}"
                 THEN JsonOk(SkipWS(s, i + 1) + 1, Obj(<<>>, <<>>))
                 ELSE JsonMembers(s, i + 1, Obj(<<>>, <<>>))
       ELSE IF s[i] = DQ THEN JsonString(s, i + 1, <<>>)
       ELSE IF s[i] = "-" \/ s[i] \in Digits THEN JsonNumber(s, i)
       ELSE IF HasAt(s, i, W_true) THEN JsonOk(i + 4, Lit("true"))
       ELSE IF HasAt(s, i, W_false) THEN JsonOk(i + 5, Lit("false"))
       ELSE IF HasAt(s, i, W_null) THEN JsonOk(i + 4, Lit("null"))
       ELSE JsonFail

\* JSON.parse(text): ok is FALSE where it throws a SyntaxError
JSONparse(text) ==
    LET r == JsonValue(text, 1)
    IN IF r.ok /\ SkipWS(text, r.pos) > Len(text) THEN r ELSE JsonFail

\* ------------------------------------------------------------------------
\* new Date(text).toLocaleDateString('en-US', {year, month: 'short', day})
\* ------------------------------------------------------------------------
MonthShort == <<<<"J", "a", "n">>, <<"F", "e", "b">>, <<"M", "a", "r">>, <<"A", "p", "r">>, <<"M", "a", "y">>, <<"J", "u", "n">>, <<"J", "u", "l">>, <<"A", "u", "g">>, <<"S", "e", "p">>, <<"O", "c", "t">>, <<"N", "o", "v">>, <<"D", "e", "c">>>>
W_InvalidDate == <<"I", "n", "v", "a", "l", "i", "d", " ", "D", "a", "t", "e">>
W_Record == <<"R", "e", "c", "o", "r", "d", " ">>

RECURSIVE IntToStr(_)
IntToStr(n) ==
    IF n < 10 THEN <<<<"0", "1", "2", "3", "4", "5", "6", "7", "8", "9">>[n + 1]>>
    ELSE Append(IntToStr(n \div 10), <<"0", "1", "2", "3", "4", "5", "6", "7", "8", "9">>[(n % 10) + 1])

IsLeap(y) == (y % 4 = 0 /\ y % 100 # 0) \/ y % 400 = 0
DaysInMonth(y, m) ==
    IF m = 2 THEN (IF IsLeap(y) THEN 29 ELSE 28)
    ELSE IF m \in {4, 6, 9, 11} THEN 30 ELSE 31

\* the date-only ISO form YYYY-MM-DD, which Date reads as midnight UTC
IsIsoDate(s) ==
    /\ Len(s) = 10
    /\ s[5] = "-" /\ s[8] = "-"
    /\ \A k \in {1, 2, 3, 4, 6, 7, 9, 10} : s[k] \in Digits
    /\ DigitsValue(s, 6, 2) \in 1..12
    /\ DigitsValue(s, 9, 2) \in 1..DaysInMonth(DigitsValue(s, 1, 4), DigitsValue(s, 6, 2))

\* the calendar day before y-m-d
DayBefore(y, m, d) ==
    IF d > 1 THEN [y |-> y, m |-> m, d |-> d - 1]
    ELSE IF m > 1 THEN [y |-> y, m |-> m - 1, d |-> DaysInMonth(y, m - 1)]
    ELSE [y |-> y - 1, m |-> 12, d |-> 31]

\* west: the page runs in a time zone behind UTC, where midnight UTC is still
\* the previous local day.  Text that is not an ISO date is taken as unparseable.
toLocaleDateString(text, west) ==
    IF ~IsIsoDate(text) THEN W_InvalidDate
    ELSE LET utc == [y |-> DigitsValue(text, 1, 4), m |-> DigitsValue(text, 6, 2),
                     d |-> DigitsValue(text, 9, 2)]
             day == IF west THEN DayBefore(utc.y, utc.m, utc.d) ELSE utc
         IN MonthShort[day.m] \o <<" ">> \o IntToStr(day.d) \o <<",", " ">> \o IntToStr(day.y)

\* ------------------------------------------------------------------------
\* Objects used as lookup tables
\* ------------------------------------------------------------------------
\* names every plain object inherits from Object.prototype
ObjectPrototypeKeys == {<<"c", "o", "n", "s", "t", "r", "u", "c", "t", "o", "r">>,
                        <<"_", "_", "p", "r", "o", "t", "o", "_", "_">>,
                        <<"t", "o", "S", "t", "r", "i", "n", "g">>,
                        <<"v", "a", "l", "u", "e", "O", "f">>,
                        <<"h", "a", "s", "O", "w", "n", "P", "r", "o", "p", "e", "r", "t", "y">>,
                        <<"i", "s", "P", "r", "o", "t", "o", "t", "y", "p", "e", "O", "f">>,
                        <<"p", "r", "o", "p", "e", "r", "t", "y", "I", "s", "E", "n", "u", "m", "e", "r", "a", "b", "l", "e">>,
                        <<"t", "o", "L", "o", "c", "a", "l", "e", "S", "t", "r", "i", "n", "g">>}

\* CATEGORIES (news page): its own keys
CATEGORIES == {W_traffic, W_weather, W_safety, W_crime, W_government, W_economy, W_health, W_environment, W_social, W_community}

\* categoryMapping (news page): own key and value pairs
categoryMapping == {<<W_traffic, W_traffic>>,
                    <<W_transport, W_traffic>>,
                    <<W_weather, W_weather>>,
                    <<W_safety, W_safety>>,
                    <<W_security, W_safety>>,
                    <<W_crime, W_crime>>,
                    <<W_criminal, W_crime>>,
                    <<W_government, W_government>>,
                    <<W_govt, W_government>>,
                    <<W_politics, W_government>>,
                    <<W_economy, W_economy>>,
                    <<W_economic, W_economy>>,
                    <<W_finance, W_economy>>,
                    <<W_health, W_health>>,
                    <<W_medical, W_health>>,
                    <<W_environment, W_environment>>,
                    <<W_ecological, W_environment>>,
                    <<W_social, W_social>>,
                    <<W_community, W_community>>,
                    <<W_local, W_community>>,
                    <<W_regional, W_community>>}

\* table[key] on an object literal given by its own key and value pairs: an
\* inherited name gives the inherited (truthy, non-string) member
LookupMapping(key) ==
    IF key.t # "str" THEN Undefined
    ELSE IF \E kv \in categoryMapping : kv[1] = key.s
         THEN Str((CHOOSE kv \in categoryMapping : kv[1] = key.s)[2])
    ELSE IF key.s \in ObjectPrototypeKeys THEN Lit("inherited")
    ELSE Undefined

\* CATEGORIES[key]; a key that is not a string is converted to one first, and
\* no such text is a name of CATEGORIES or of Object.prototype
LookupCATEGORIES(key) ==
    IF key.t # "str" THEN Undefined
    ELSE IF key.s \in CATEGORIES \/ key.s \in ObjectPrototypeKeys THEN Lit("inherited")
    ELSE Undefined

\* ------------------------------------------------------------------------
\* Shared pieces of the four parseCSV functions
\* ------------------------------------------------------------------------
\* csvText.trim().split('\n')
Lines(csvText) == split(trim(csvText), NL)

\* lines[0].split(',').map(h => h.trim())
Headers(csvText) ==
    LET raw == split(Lines(csvText)[1], COMMA)
    IN [k \in 1..Len(raw) |-> trim(raw[k])]

\* if (value.startsWith('"') && value.endsWith('"')) value = value.slice(1, -1)
StripQuotes(value) ==
    IF startsWith(value, DQ) /\ endsWith(value, DQ) THEN slice1(value) ELSE value

\* values[index] || ''
ValueAt(values, index) == OrElse(At(values, index), Str(<<>>))

\* ------------------------------------------------------------------------
\* alerts page: parseCSV
\* ------------------------------------------------------------------------
RECURSIVE AssembleAlert(_, _, _, _)
AssembleAlert(headers, values, index, alert) ==
    IF index >= Len(headers) THEN alert
    ELSE AssembleAlert(headers, values, index + 1,
             Put(alert, headers[index + 1], Str(StripQuotes(ValueAt(values, index).s))))

AlertRow(headers, line) == AssembleAlert(headers, SimpleTokens(line), 0, EmptyObject)

\* faulty variant of DataLines: the header line is kept among the data lines
DataLines_KeepHeader(csvText) == Lines(csvText)

\* lines.slice(1): the lines after the first
DataLines(csvText) == SubSeq(Lines(csvText), 2, Len(Lines(csvText)))

parseCSV_alerts(csvText) ==
    LET data == DataLines(csvText)
    IN [diverged |-> FALSE,
        records |-> [k \in 1..Len(data) |-> AlertRow(Headers(csvText), data[k])],
        tokens |-> [k \in 1..Len(data) |-> SimpleTokens(data[k])],
        rowLines |-> data]

\* ------------------------------------------------------------------------
\* news page: parseCSV
\* ------------------------------------------------------------------------
\* the header clean-up: trim, strip one pair of surrounding quotes, lowercase
NewsHeaders(csvText) ==
    LET raw == split(Lines(csvText)[1], COMMA)
    IN [k \in 1..Len(raw) |-> toLowerCase(StripQuotes(trim(raw[k])))]

\* faulty variant of NewsProperty: every header is kept as the property name
NewsProperty_NoAlias(header) == header

\* the switch over the header name: the property the value is stored under
NewsProperty(header) ==
    CASE header \in {W_title, W_headline} -> W_title
      [] header \in {W_summary, W_description, W_content} -> W_summary
      [] header \in {W_category, W_type} -> W_category
      [] header \in {W_subcategory, W_sub_type} -> W_subcategory
      [] header \in {W_location, W_region, W_area} -> W_location
      [] header \in {W_impact, W_severity, W_importance} -> W_impact
      [] header \in {W_date, W_time, W_timestamp, W_published_date} -> W_date
      [] OTHER -> header

\* the value stored by the switch: only the category is lowercased
NewsStored(header, value) ==
    IF header \in {W_category, W_type} THEN toLowerCase(value) ELSE value

RECURSIVE AssembleNews(_, _, _, _)
AssembleNews(headers, values, index, newsItem) ==
    IF index >= Len(headers) THEN newsItem
    ELSE AssembleNews(headers, values, index + 1,
             Put(newsItem, NewsProperty(headers[index + 1]),
                 Str(NewsStored(headers[index + 1], StripQuotes(ValueAt(values, index).s)))))

\* if (!newsItem.category) headers.forEach(... header.includes('category') && !newsItem.category ...)
RECURSIVE FindCategory(_, _, _, _)
FindCategory(headers, values, index, newsItem) ==
    IF index >= Len(headers) THEN newsItem
    ELSE IF includes(headers[index + 1], W_category) /\ ~Truthy(Get(newsItem, W_category))
         THEN FindCategory(headers, values, index + 1,
                  Put(newsItem, W_category,
                      Str(toLowerCase(StripQuotes(ValueAt(values, index).s)))))
    ELSE FindCategory(headers, values, index + 1, newsItem)

\* if (!newsItem.category) newsItem.category = 'uncategorized'
DefaultCategory(newsItem) ==
    IF Truthy(Get(newsItem, W_category)) THEN newsItem
    ELSE Put(newsItem, W_category, Str(W_uncategorized))

\* newsItem.category = newsItem.category.trim().toLowerCase()
CleanCategory(newsItem) ==
    Put(newsItem, W_category, Str(toLowerCase(trim(newsItem[W_category].s))))

\* faulty variant of MapCategory: the alias table is never consulted
MapCategory_Skip(newsItem) == newsItem

\* if (categoryMapping[newsItem.category]) newsItem.category = categoryMapping[newsItem.category]
MapCategory(newsItem) ==
    IF Truthy(LookupMapping(newsItem[W_category]))
    THEN Put(newsItem, W_category, LookupMapping(newsItem[W_category]))
    ELSE newsItem

\* faulty variant of ValidateCategory: an unknown category is let through
ValidateCategory_Skip(newsItem) == newsItem

\* if (!CATEGORIES[newsItem.category]) newsItem.category = 'community'
ValidateCategory(newsItem) ==
    IF Truthy(LookupCATEGORIES(newsItem[W_category])) THEN newsItem
    ELSE Put(newsItem, W_category, Str(W_community))

NewsRow(headers, line) ==
    LET values == SimpleTokens(line)
        mapped == AssembleNews(headers, values, 0, EmptyObject)
        found == IF Truthy(Get(mapped, W_category)) THEN mapped
                 ELSE FindCategory(headers, values, 0, mapped)
    IN ValidateCategory(MapCategory(CleanCategory(DefaultCategory(found))))

parseCSV_news(csvText) ==
    LET data == DataLines(csvText)
    IN [diverged |-> FALSE,
        records |-> [k \in 1..Len(data) |-> NewsRow(NewsHeaders(csvText), data[k])],
        tokens |-> [k \in 1..Len(data) |-> SimpleTokens(data[k])],
        rowLines |-> data]

\* ------------------------------------------------------------------------
\* weather page: parseCSV
\* ------------------------------------------------------------------------
RECURSIVE AssembleRow(_, _, _, _)
AssembleRow(headers, values, index, row) ==
    IF index >= Len(headers) THEN row
    ELSE AssembleRow(headers, values, index + 1,
             Put(row, headers[index + 1], ValueAt(values, index)))

\* the forecast cell: JSON.parse(row.forecast.replace(/""/g, '"')), [] when it
\* throws or when the cell does not start with '['
DecodeForecast(row) ==
    LET cell == Get(row, W_forecast)
    IN IF Truthy(cell) /\ startsWith(cell.s, "[")
       THEN IF JSONparse(replaceDQ(cell.s)).ok
            THEN Put(row, W_forecast, JSONparse(replaceDQ(cell.s)).val)
            ELSE Put(row, W_forecast, Arr(<<>>))
       ELSE Put(row, W_forecast, Arr(<<>>))

\* the alerts cell: JSON.parse(row.alerts), [] when it throws or when the cell
\* does not start with '['
DecodeAlerts(row) ==
    LET cell == Get(row, W_alerts)
    IN IF Truthy(cell) /\ startsWith(cell.s, "[")
       THEN IF JSONparse(cell.s).ok
            THEN Put(row, W_alerts, JSONparse(cell.s).val)
            ELSE Put(row, W_alerts, Arr(<<>>))
       ELSE Put(row, W_alerts, Arr(<<>>))

\* faulty variant of Coerce: the "|| 0" default is missing
Coerce_NoDefault(row, f) == Put(row, f, parseFloat(Get(row, f)))

\* row.f = parseFloat(row.f) || 0
Coerce(row, f) == Put(row, f, OrElse(parseFloat(Get(row, f)), Zero))

WeatherNumeric == <<W_temperature, W_feels_like, W_humidity, W_wind_speed, W_rain>>

WeatherRow(headers, values) ==
    LET row == DecodeAlerts(DecodeForecast(AssembleRow(headers, values, 0, EmptyObject)))
    IN Coerce(Coerce(Coerce(Coerce(Coerce(row, W_temperature), W_feels_like),
                            W_humidity), W_wind_speed), W_rain)

\* the for loop over lines[1..]: blank lines are skipped; a line on which the
\* tokenizer loop never ends stops the whole call
RECURSIVE WeatherLoop(_, _, _, _)
WeatherLoop(lines, headers, i, out) ==
    IF i >= Len(lines) THEN out
    ELSE LET line == trim(lines[i + 1])
             toks == RegexTokens(line)
         IN IF line = <<>> THEN WeatherLoop(lines, headers, i + 1, out)
            ELSE IF toks.diverged
                 THEN [diverged |-> TRUE, records |-> <<>>, tokens |-> <<>>, rowLines |-> <<>>]
            ELSE WeatherLoop(lines, headers, i + 1,
                     [diverged |-> FALSE,
                      records |-> Append(out.records, WeatherRow(headers, toks.values)),
                      tokens |-> Append(out.tokens, toks.values),
                      rowLines |-> Append(out.rowLines, line)])

NoRecords == [diverged |-> FALSE, records |-> <<>>, tokens |-> <<>>, rowLines |-> <<>>]

parseCSV_weather(csvText) == WeatherLoop(Lines(csvText), Headers(csvText), 1, NoRecords)

\* ------------------------------------------------------------------------
\* fuel page: parseCSV
\* ------------------------------------------------------------------------
RECURSIVE AssembleFuel(_, _, _, _)
AssembleFuel(headers, values, index, row) ==
    IF index >= Len(headers) THEN row
    ELSE AssembleFuel(headers, values, index + 1,
             Put(row, headers[index + 1],
                 IF includes(headers[index + 1], W_date)
                 THEN ValueAt(values, index)
                 ELSE OrElse(parseFloat(ValueAt(values, index)), Zero)))

\* if (!row.date_str): the display date from row.date, else `Record ${i}`
EnsureDateStr(row, i, west) ==
    IF Truthy(Get(row, W_date_str)) THEN row
    ELSE IF Truthy(Get(row, W_date))
         THEN Put(row, W_date_str, Str(toLocaleDateString(Get(row, W_date).s, west)))
    ELSE Put(row, W_date_str, Str(W_Record \o IntToStr(i)))

FuelRow(headers, line, i, west) ==
    EnsureDateStr(AssembleFuel(headers, SplitTokens(line), 0, EmptyObject), i, west)

RECURSIVE FuelLoop(_, _, _, _, _)
FuelLoop(lines, headers, i, west, out) ==
    IF i >= Len(lines) THEN out
    ELSE LET line == trim(lines[i + 1])
         IN IF line = <<>> THEN FuelLoop(lines, headers, i + 1, west, out)
            ELSE FuelLoop(lines, headers, i + 1, west,
                     [diverged |-> FALSE,
                      records |-> Append(out.records, FuelRow(headers, line, i, west)),
                      tokens |-> Append(out.tokens, SplitTokens(line)),
                      rowLines |-> Append(out.rowLines, line)])

parseCSV_fuel(csvText, west) == FuelLoop(Lines(csvText), Headers(csvText), 1, west, NoRecords)

\* ------------------------------------------------------------------------
\* fuel page: exportData
\* ------------------------------------------------------------------------
\* Array.prototype.join
RECURSIVE join(_, _)
join(parts, sep) ==
    IF parts = <<>> THEN <<>>
    ELSE IF Len(parts) = 1 THEN parts[1]
    ELSE parts[1] \o <<sep>> \o join(Tail(parts), sep)

\* the nine price properties, in the order exportData writes them
PriceFields == <<<<"p", "e", "t", "r", "o", "l", "_", "9", "5">>,
                <<"p", "e", "t", "r", "o", "l", "_", "9", "2">>,
                <<"a", "u", "t", "o", "_", "d", "i", "e", "s", "e", "l">>,
                <<"s", "u", "p", "e", "r", "_", "d", "i", "e", "s", "e", "l">>,
                <<"k", "e", "r", "o", "s", "e", "n", "e">>,
                <<"i", "n", "d", "u", "s", "t", "r", "i", "a", "l", "_", "k", "e", "r", "o", "s", "e", "n", "e">>,
                <<"f", "u", "r", "n", "a", "c", "e", "_", "8", "0", "0">>,
                <<"f", "u", "r", "n", "a", "c", "e", "_", "1", "5", "0", "0", "_", "h", "i", "g", "h">>,
                <<"f", "u", "r", "n", "a", "c", "e", "_", "1", "5", "0", "0", "_", "l", "o", "w">>>>

\* headers.join(',') of exportData
ExportHeader == <<"D", "a", "t", "e", ",", "P", "e", "t", "r", "o", "l", " ", "9", "5", ",", "P", "e", "t", "r", "o", "l", " ", "9", "2", ",", "A", "u", "t", "o", " ", "D", "i", "e", "s", "e", "l", ",", "S", "u", "p", "e", "r", " ", "D", "i", "e", "s", "e", "l", ",", "K", "e", "r", "o", "s", "e", "n", "e", ",", "I", "n", "d", "u", "s", "t", "r", "i", "a", "l", " ", "K", "e", "r", "o", "s", "e", "n", "e", ",", "F", "u", "r", "n", "a", "c", "e", " ", "8", "0", "0", ",", "F", "u", "r", "n", "a", "c", "e", " ", "1", "5", "0", "0", " ", "H", "i", "g", "h", ",", "F", "u", "r", "n", "a", "c", "e", " ", "1", "5", "0", "0", " ", "L", "o", "w">>

\* Number.prototype.toFixed(2), for magnitudes below 10^21: the number of
\* hundredths nearest to the magnitude (the larger one on a tie), written
\* with two decimals
toFixed2(v) ==
    LET a == IF v.m < 0 THEN -v.m ELSE v.m
        hundredths == IF v.e >= -2 THEN a * (10 ^ (v.e + 2))
                      ELSE (a + 5 * (10 ^ (-v.e - 3))) \div (10 ^ (-v.e - 2))
        digit(d) == <<"0", "1", "2", "3", "4", "5", "6", "7", "8", "9">>[d + 1]
        sign == IF v.m < 0 THEN <<"-">> ELSE <<>>
    IN IF v.t = "inf" THEN sign \o W_Infinity
       ELSE sign \o IntToStr(hundredths \div 100)
            \o <<".", digit((hundredths % 100) \div 10), digit(hundredths % 10)>>

\* rowData.join(',') for one row
ExportRow(row) ==
    join(<<row[W_date_str].s>> \o [n \in 1..Len(PriceFields) |-> toFixed2(row[PriceFields[n]])], COMMA)

\* row.petrol_95.toFixed(2) on a row without that property throws a TypeError
ExportThrows(data) ==
    \E k \in 1..Len(data) : \E n \in 1..Len(PriceFields) : PriceFields[n] \notin DOMAIN data[k]

\* csvContent: the header line and one line per row, each ended by a newline
RECURSIVE ExportLines(_, _)
ExportLines(data, k) ==
    IF k > Len(data) THEN <<>>
    ELSE ExportRow(data[k]) \o <<NL>> \o ExportLines(data, k + 1)
exportData(data) == ExportHeader \o <<NL>> \o ExportLines(data, 1)

\* ------------------------------------------------------------------------
\* Input texts: the CSV bodies the pages are run on
\* ------------------------------------------------------------------------
MaxLineLen == 4
MaxFields == 3
MaxLines == 3

\* all sequences over S of length lo..hi
SeqsOf(S, lo, hi) == UNION {[1..n -> S] : n \in lo..hi}

Min(a, b) == IF a < b THEN a ELSE b

GenericHeaderNames == <<<<"i", "d">>,
                      <<"d", "a", "t", "e">>,
                      <<"t", "o", "_", "d", "a", "t", "e">>,
                      <<"n", "o", "t", "e">>,
                      <<"r", "e", "f">>,
                      <<"t", "a", "g">>>>
GenericHeaderLists == {SubSeq(GenericHeaderNames, 1, n) : n \in 1..Min(MaxFields, Len(GenericHeaderNames))}

\* one data line of every text over a small alphabet, under two headers
LineAlphabet == {"a", COMMA, DQ, " "}
CharTexts ==
    {join(<<join(SubSeq(GenericHeaderNames, 1, 2), COMMA), line>>, NL) :
        line \in SeqsOf(LineAlphabet, 1, MaxLineLen)}

\* one data line of up to MaxFields fields, under one to MaxFields headers
FieldPool == {<<>>,
             <<"a">>,
             <<" ", "b", " ">>,
             <<"\"", "b", ",", "c", "\"">>,
             <<"\"", "H", "e", " ", "s", "a", "i", "d", " ", "\"", "\"", "h", "i", "\"", "\"", "\"">>,
             <<"\"", "a">>}
FieldTexts ==
    {join(<<join(h, COMMA), join(fields, COMMA)>>, NL) :
        h \in GenericHeaderLists, fields \in SeqsOf(FieldPool, 1, MaxFields)}

\* up to MaxLines lines after the header, blank ones included
LinePool == {<<>>,
            <<"a", ",", "b">>,
            <<" ">>,
            <<"c">>}
LineTexts ==
    {join(<<join(SubSeq(GenericHeaderNames, 1, 2), COMMA)>> \o lines, NL) :
        lines \in SeqsOf(LinePool, 1, MaxLines)}

\* bodies without a data line; "empty" is what the file server sends when the
\* CSV file is missing
W_empty == <<"e", "m", "p", "t", "y">>
DegenerateTexts == {<<>>, W_empty, <<NL>>, <<" ">>} \cup
    {join(h, COMMA) : h \in GenericHeaderLists} \cup
    {Append(join(h, COMMA), NL) : h \in GenericHeaderLists}

\* news bodies: header lines with and without a category column, one row
NewsHeaderLists == {<<<<"t", "i", "t", "l", "e">>, <<"c", "a", "t", "e", "g", "o", "r", "y">>>>,
                   <<<<"t", "i", "t", "l", "e">>, <<"t", "y", "p", "e">>>>,
                   <<<<"c", "a", "t", "e", "g", "o", "r", "y">>, <<"t", "y", "p", "e">>>>,
                   <<<<"t", "y", "p", "e">>, <<"c", "a", "t", "e", "g", "o", "r", "y">>>>,
                   <<<<"t", "i", "t", "l", "e">>>>,
                   <<<<"t", "i", "t", "l", "e">>, <<"s", "u", "b", "c", "a", "t", "e", "g", "o", "r", "y">>>>,
                   <<<<"s", "u", "b", "c", "a", "t", "e", "g", "o", "r", "y">>, <<"n", "e", "w", "s", "_", "c", "a", "t", "e", "g", "o", "r", "y">>>>,
                   <<<<"C", "a", "t", "e", "g", "o", "r", "y">>, <<"H", "e", "a", "d", "l", "i", "n", "e">>>>,
                   <<<<"\"", "c", "a", "t", "e", "g", "o", "r", "y", "\"">>>>,
                   <<<<"r", "e", "g", "i", "o", "n">>, <<"s", "e", "v", "e", "r", "i", "t", "y">>>>,
                   <<<<"t", "i", "t", "l", "e">>, <<"H", "e", "a", "d", "l", "i", "n", "e">>>>,
                   <<<<" ", "N", "o", "t", "e">>, <<"t", "i", "m", "e", "s", "t", "a", "m", "p">>>>}
CategoryCells == {<<>>,
                 <<"T", "r", "a", "n", "s", "p", "o", "r", "t">>,
                 <<"x", "y", "z", "-", "u", "n", "k", "n", "o", "w", "n">>,
                 <<"t", "r", "a", "f", "f", "i", "c">>,
                 <<"L", "O", "C", "A", "L">>,
                 <<"c", "o", "n", "s", "t", "r", "u", "c", "t", "o", "r">>,
                 <<"G", "o", "v", "t">>,
                 <<"\"", " ", "m", "e", "d", "i", "c", "a", "l", " ", "\"">>,
                 <<"w", "e", "a", "t", "h", "e", "r">>}
NewsTexts ==
    {join(<<join(h, COMMA), join(cells, COMMA)>>, NL) :
        h \in NewsHeaderLists, cells \in SeqsOf(CategoryCells, 1, 2)}

\* weather and fuel bodies with numeric and date cells
NumberCells == {<<>>,
               <<"1", "2">>,
               <<"1", ".", "5">>,
               <<"a", "b", "c">>,
               <<"1", "2", "a", "b", "c">>,
               <<"-", "0">>,
               <<".", "5">>,
               <<"1", "e", "3">>,
               <<"I", "n", "f", "i", "n", "i", "t", "y">>,
               <<"-">>,
               <<"\"", "7", "\"">>}
DateCells == {<<>>,
             <<"2", "0", "2", "4", "-", "0", "3", "-", "0", "1">>,
             <<"2", "0", "2", "4", "-", "0", "1", "-", "0", "1">>,
             <<"s", "o", "o", "n">>}
NumericTexts ==
    {join(<<<<"l", "o", "c", "a", "t", "i", "o", "n", ",", "t", "e", "m", "p", "e", "r", "a", "t", "u", "r", "e", ",", "r", "a", "i", "n">>, join(<<<<"C", "o", "l", "o", "m", "b", "o">>, c1, c2>>, COMMA)>>, NL) :
        c1 \in NumberCells, c2 \in NumberCells}
    \cup {join(<<<<"d", "a", "t", "e", "_", "s", "t", "r", ",", "d", "a", "t", "e", ",", "p", "e", "t", "r", "o", "l", "_", "9", "5">>, join(<<c1, c2, c3>>, COMMA)>>, NL) :
        c1 \in {<<>>, <<"M", "a", "r", " ", "1">>}, c2 \in DateCells, c3 \in NumberCells}
    \cup {join(<<<<"p", "e", "t", "r", "o", "l", "_", "9", "5", ",", "p", "e", "t", "r", "o", "l", "_", "9", "2">>, join(<<c1>>, COMMA)>>, NL) : c1 \in NumberCells}

\* weather bodies with JSON cells
JsonCells == {<<>>,
             <<"n", "o", "t", "-", "j", "s", "o", "n">>,
             <<"\"", "[", "{", "\"", "\"", "t", "i", "m", "e", "\"", "\"", ":", "\"", "\"", "t", "1", "\"", "\"", "}", "]", "\"">>,
             <<"[", "1", "]">>,
             <<"\"", "[", "{", "\"", "\"", "a", "\"", "\"", ":", "\"", "\"", "\"", "\"", "}", "]", "\"">>,
             <<"[", "1">>}
JsonTexts ==
    {join(<<<<"f", "o", "r", "e", "c", "a", "s", "t", ",", "a", "l", "e", "r", "t", "s">>, join(<<c1, c2>>, COMMA)>>, NL) :
        c1 \in JsonCells, c2 \in JsonCells}

\* fuel bodies with the date and the nine price columns
FuelRows == {<<"2", "0", "2", "4", "-", "0", "3", "-", "0", "1", ",", "1", ",", "2", ".", "5", ",", "3", ",", "4", ",", "5", ",", "6", ",", "7", ",", "8", ",", "9">>,
             <<"2", "0", "2", "4", "-", "0", "1", "-", "0", "1", ",", "1", "0", ".", "2", "3", "9", ",", "0", ",", "3", "7", "0", ".", "0", "0", ",", "4", ",", "5", ",", "6", ",", "7", ",", "8", ",", "9", ".", "9", "9", "9">>,
             <<",", "1", ",", "2", ",", "3", ",", "4", ",", "5", ",", "6", ",", "7", ",", "8", ",", "a", "b", "c">>}
FuelTexts ==
    {join(<<<<"d", "a", "t", "e", ",", "p", "e", "t", "r", "o", "l", "_", "9", "5", ",", "p", "e", "t", "r", "o", "l", "_", "9", "2", ",", "a", "u", "t", "o", "_", "d", "i", "e", "s", "e", "l", ",", "s", "u", "p", "e", "r", "_", "d", "i", "e", "s", "e", "l", ",", "k", "e", "r", "o", "s", "e", "n", "e", ",", "i", "n", "d", "u", "s", "t", "r", "i", "a", "l", "_", "k", "e", "r", "o", "s", "e", "n", "e", ",", "f", "u", "r", "n", "a", "c", "e", "_", "8", "0", "0", ",", "f", "u", "r", "n", "a", "c", "e", "_", "1", "5", "0", "0", "_", "h", "i", "g", "h", ",", "f", "u", "r", "n", "a", "c", "e", "_", "1", "5", "0", "0", "_", "l", "o", "w">>>> \o rows, NL) :
        rows \in SeqsOf(FuelRows, 1, MaxLines - 1)}

Inputs == CharTexts \cup FieldTexts \cup LineTexts \cup DegenerateTexts
          \cup NewsTexts \cup NumericTexts \cup JsonTexts \cup FuelTexts

\* ------------------------------------------------------------------------
\* The state machine: a page receives a body and parses it
\* ------------------------------------------------------------------------
VARIABLES
    csvText,    \* the fetched body
    page,       \* the page whose parseCSV ran: "none" before the call
    pc,         \* "ready", "done" (parseCSV returned), "diverged" (it never returns)
    records,    \* the array parseCSV returned
    tokens,     \* per record, the values array of its line
    rowLines,   \* per record, the line it was made from
    exported,   \* the CSV text exportData wrote, <<>> before
    reparsed    \* the records the fuel parseCSV makes of the exported text

\* the state of a running page: its timers, its loads in flight, its globals
VARIABLES
    parsed,           \* per version of the page's file, from 0, the body of an error,
                      \* what parseCSV makes of it
    refreshCountdown, \* seconds shown until the next automatic refresh
    intervalLeft,     \* seconds until setInterval(load, REFRESH_INTERVAL) fires, -1 unarmed
    phase,            \* "starting" (init awaits), "running" (listeners set up), "idle"
    loads,            \* the calls of the load function in flight, oldest first
    stored,           \* alerts / allNews / weatherData / fuelData: the version of the
                      \* file whose records the array holds, -1 for the empty array
    filtered,         \* filteredAlerts / filteredNews / filteredData: the positions of
                      \* the records it holds, and the array they are records of
    view,             \* the data container, the loading overlay, the error surface
    last,             \* the load the step just taken started or ended, NoLoad if none:
                      \* what called it, or the version it read, how it ended, whether
                      \* a later call had overtaken it, whether it ran alone, and what
                      \* was shown when it began and stored just before it ended
    waited,           \* seconds gone by with a load in flight
    clicks            \* uses of the refresh and retry buttons so far

\* what the user's input and the carousel act on
VARIABLES
    currentAlertIndex,  \* the alert the carousel shows, counted from 0
    alertSlideInterval, \* the handle startAlertSlide keeps, 0 while undefined
    timers,             \* the handles of the auto-slide intervals that are running
    currentPage,        \* the page of the fuel table, counted from 1
    searchTerm,         \* the value of the search box (tableSearch, newsSearch)
    appliedRange,       \* the dates applyDateRangeFilter last ran with, <<>> if it
                        \* never ran or resetFilters ran since
    selectedCategory,   \* the value of the category select of the news page
    newsByCategory      \* per category, the positions of its news in allNews

uiVars == <<currentAlertIndex, alertSlideInterval, timers, currentPage, searchTerm,
            appliedRange, selectedCategory, newsByCategory>>

pageVars == <<parsed, refreshCountdown, intervalLeft, phase, loads, stored, filtered, view,
              last, waited, clicks, uiVars>>

\* the file server: the two CSV files it reads and the response it sent last
VARIABLES
    disk,       \* per route, the file behind it: is it there, can it be read,
                \* and what it holds
    response    \* the last response: its route, status, Content-Type and body

serverVars == <<disk, response>>

NoFile == [exists |-> FALSE, readable |-> FALSE, content |-> <<>>]
NoResponse == [route |-> "none", status |-> 0, contentType |-> "none", body |-> <<>>]

\* no server is running
ServerIdle ==
    /\ disk = [r \in {"alerts", "news-data"} |-> NoFile]
    /\ response = NoResponse

\* a carousel index: a whole number, or NaN
Index(n) == [nan |-> FALSE, n |-> n]
NaNIndex == [nan |-> TRUE, n |-> 0]

W_all == <<"a", "l", "l">>

\* nothing typed, nothing selected, nothing started
UiIdle ==
    /\ currentAlertIndex = Index(0)
    /\ alertSlideInterval = 0
    /\ timers = {}
    /\ currentPage = 1
    /\ searchTerm = <<>>
    /\ appliedRange = <<>>
    /\ selectedCategory = W_all
    /\ newsByCategory = EmptyObject

NoneFiltered == [of |-> -1, rows |-> <<>>]
NoView == [content |-> [kind |-> "none", body |-> -1], overlay |-> FALSE, status |-> "none"]
NoLoad == [did |-> "none", by |-> "none", body |-> -1, cause |-> "none",
           overtaken |-> FALSE, alone |-> FALSE, shown |-> NoView.content, was |-> -1]

\* no page is running: the parser is run on its own
PageIdle ==
    /\ parsed = <<>>
    /\ refreshCountdown = 0
    /\ intervalLeft = -1
    /\ phase = "idle"
    /\ loads = <<>>
    /\ stored = -1
    /\ filtered = NoneFiltered
    /\ view = NoView
    /\ last = NoLoad
    /\ waited = 0
    /\ clicks = 0
    /\ UiIdle
    /\ ServerIdle

parseVars == <<csvText, pc, records, tokens, rowLines, exported, reparsed>>
vars == <<csvText, page, pc, records, tokens, rowLines, exported, reparsed, pageVars,
          serverVars>>

Init ==
    /\ csvText \in Inputs
    /\ page = "none"
    /\ pc = "ready"
    /\ records = <<>>
    /\ tokens = <<>>
    /\ rowLines = <<>>
    /\ exported = <<>>
    /\ reparsed = <<>>
    /\ PageIdle

Return(p, out) ==
    /\ page' = p
    /\ pc' = IF out.diverged THEN "diverged" ELSE "done"
    /\ records' = out.records
    /\ tokens' = out.tokens
    /\ rowLines' = out.rowLines
    /\ UNCHANGED <<csvText, exported, reparsed, pageVars, serverVars>>

ParseAlerts == pc = "ready" /\ Return("alerts", parseCSV_alerts(csvText))
ParseNews == pc = "ready" /\ Return("news", parseCSV_news(csvText))
ParseWeather == pc = "ready" /\ Return("weather", parseCSV_weather(csvText))
ParseFuel == pc = "ready" /\ \E west \in BOOLEAN : Return("fuel", parseCSV_fuel(csvText, west))

\* the export button of the fuel page, with filteredData the records just
\* parsed: a TypeError on a row without a price, or the text.  With no record
\* it only tells that there is nothing to export and changes nothing.
ExportData ==
    /\ page = "fuel" /\ pc = "done"
    /\ records # <<>>
    /\ IF ExportThrows(records) THEN pc' = "export failed" /\ exported' = exported
       ELSE pc' = "exported" /\ exported' = exportData(records)
    /\ UNCHANGED <<csvText, page, records, tokens, rowLines, reparsed, pageVars, serverVars>>

\* the exported file is served as the fuel page's data and parsed again
ReparseExport ==
    /\ pc = "exported"
    /\ \E west \in BOOLEAN : reparsed' = parseCSV_fuel(exported, west).records
    /\ pc' = "reparsed"
    /\ UNCHANGED <<csvText, page, records, tokens, rowLines, exported, pageVars, serverVars>>

Next == ParseAlerts \/ ParseNews \/ ParseWeather \/ ParseFuel \/ ExportData \/ ReparseExport

Spec == Init /\ [][Next]_vars

\* ------------------------------------------------------------------------
\* The pages at run time: the timers, the loads in flight and what a load
\* leaves behind.  One step of time is one second, the period of the countdown.
\* ------------------------------------------------------------------------
Pages == {"alerts", "news", "weather", "fuel"}

LongCountdown == 120    \* let refreshCountdown = 120 (dashboard and news)
ShortCountdown == 30    \* let refreshCountdown = 30 (weather and fuel)
RefreshSeconds == 120   \* CONFIG.REFRESH_INTERVAL: 120000 ms

MaxInFlight == 2        \* loads in flight at once
MaxWait == 1            \* seconds an awaited call may take
MaxBodies == 2          \* versions of the CSV file the server may send
MaxClicks == 1          \* uses of the refresh and retry buttons

CountdownStart(p) == IF p \in {"alerts", "news"} THEN LongCountdown ELSE ShortCountdown

\* the CSV files: version b of a page's file has the first FileRows(p, b) of
\* its rows, taken round and round.  The dashboard's and the news file grow by one row,
\* the fuel file from under one page of the table to over one page and on
FileRows(p, b) ==
    CASE p \in {"alerts", "news"} -> b + 1
      [] p = "fuel" -> 9 * b - 6
      [] OTHER -> b
PageHeader ==
    [alerts |-> <<"i", "d", ",", "i", "s", "_", "a", "c", "t", "i", "v", "e">>,
     news |-> <<"t", "i", "t", "l", "e", ",", "c", "a", "t", "e", "g", "o", "r", "y">>,
     weather |-> <<"l", "o", "c", "a", "t", "i", "o", "n", ",", "t", "e", "m", "p", "e", "r", "a", "t", "u", "r", "e", ",", "r", "a", "i", "n">>,
     fuel |-> join(<<W_date>> \o PriceFields, COMMA)]
PageRows ==
    [alerts |-> <<<<"1", ",", "t", "r", "u", "e">>,
                 <<"2", ",", "F", "A", "L", "S", "E">>,
                 <<"3", ",", "T", "R", "U", "E">>>>,
     news |-> <<<<"F", "l", "o", "o", "d", ",", "w", "e", "a", "t", "h", "e", "r">>,
               <<"S", "t", "r", "i", "k", "e", ",", "t", "r", "a", "n", "s", "p", "o", "r", "t">>,
               <<"F", "a", "i", "r", ",", "l", "o", "c", "a", "l">>>>,
     weather |-> <<<<"C", "o", "l", "o", "m", "b", "o", ",", "3", "0", ",", "0">>,
                  <<"K", "a", "n", "d", "y", ",", "2", "5", ",", "1", ".", "5">>,
                  <<"G", "a", "l", "l", "e", ",", "2", "9", ",", "2">>>>,
     fuel |-> <<<<"2", "0", "2", "4", "-", "0", "3", "-", "0", "1", ",", "1", ",", "2", ".", "5", ",", "3", ",", "4", ",", "5", ",", "6", ",", "7", ",", "8", ",", "9">>,
               <<"2", "0", "2", "4", "-", "0", "1", "-", "0", "1", ",", "1", "0", ",", "0", ",", "3", "7", "0", ",", "4", ",", "5", ",", "6", ",", "7", ",", "8", ",", "9">>,
               <<"2", "0", "2", "4", "-", "0", "2", "-", "0", "1", ",", "2", ",", "2", ",", "3", ",", "4", ",", "5", ",", "6", ",", "7", ",", "8", ",", "9">>>>]
\* the body of a response that is not OK
ErrorBody == <<"N", "o", "t", " ", "F", "o", "u", "n", "d">>
Body(p, b) ==
    IF b = 0 THEN ErrorBody
    ELSE join(<<PageHeader[p]>> \o
              [i \in 1..FileRows(p, b) |-> PageRows[p][((i - 1) % Len(PageRows[p])) + 1]], NL)
\* the dates the date-range inputs of the fuel page are set to
RangeDates == {<<"2", "0", "2", "4", "-", "0", "1", "-", "0", "1">>,
               <<"2", "0", "2", "4", "-", "0", "2", "-", "1", "5">>}

\* String.prototype.toUpperCase
toUpperCase(s) ==
    [k \in 1..Len(s) |->
        IF \E j \in 1..26 : LowerCase[j] = s[k]
        THEN UpperCase[CHOOSE j \in 1..26 : LowerCase[j] = s[k]]
        ELSE s[k]]

W_is_active == <<"i", "s", "_", "a", "c", "t", "i", "v", "e">>
W_TRUE == <<"T", "R", "U", "E">>

\* Array.prototype.filter: the positions of the elements that pass, in order;
\* passes[i] is what the callback returns for element i
filter(list, passes) ==
    LET at == {i \in 1..Len(list) : passes[i]}
    IN [r \in 1..Cardinality(at) |->
           CHOOSE i \in at : Cardinality({j \in at : j < i}) = r - 1]

\* faulty variant of ActiveAlerts: the flag is compared as written
ActiveAlerts_CaseSensitive(list) ==
    LET isActive(alert) == OrElse(Get(alert, W_is_active), Str(<<>>)).s = W_TRUE
    IN filter(list, [i \in 1..Len(list) |-> isActive(list[i])])

\* alerts.filter(alert => String(alert.is_active || '').toUpperCase() === 'TRUE')
ActiveAlerts(list) ==
    LET isActive(alert) ==
            toUpperCase(OrElse(Get(alert, W_is_active), Str(<<>>)).s) = W_TRUE
    IN filter(list, [i \in 1..Len(list) |-> isActive(list[i])])

\* new Date(row.date) as a number that orders the days; the rows of the files
\* above all carry an ISO date
DateKey(text) ==
    IF IsIsoDate(text)
    THEN DigitsValue(text, 1, 4) * 10000 + DigitsValue(text, 6, 2) * 100 + DigitsValue(text, 9, 2)
    ELSE 0

\* fuelData.sort((a, b) => new Date(a.date) - new Date(b.date)), a stable sort
sortByDate(data) ==
    LET key(i) == DateKey(Get(data[i], W_date).s)
        rank(i) == 1 + Cardinality({j \in 1..Len(data) :
                           key(j) < key(i) \/ (key(j) = key(i) /\ j < i)})
    IN [r \in 1..Len(data) |-> data[CHOOSE i \in 1..Len(data) : rank(i) = r]]

\* what parseCSV, and on the fuel page the sort, make of each version of the file
ParsedBody(p, b) ==
    CASE p = "alerts" -> parseCSV_alerts(Body(p, b)).records
      [] p = "news" -> parseCSV_news(Body(p, b)).records
      [] p = "weather" -> parseCSV_weather(Body(p, b)).records
      [] p = "fuel" -> sortByDate(parseCSV_fuel(Body(p, b), FALSE).records)

\* the records of the array that holds version v of the file
Records(v) == IF v < 0 THEN <<>> ELSE parsed[v + 1]

\* faulty variant of Replace: a response that a later call has overtaken is dropped
Replace_DropStale(old, load, b) == IF load.overtaken THEN old ELSE b

\* alerts = parseCSV(csvText), and the same on the other pages: whatever was
\* stored is replaced by the records of the response in hand
Replace(old, load, b) == b

\* [...allNews] and [...fuelData]
All(list) == [i \in 1..Len(list) |-> i]

Shown(kind, b) == [kind |-> kind, body |-> b]

\* the page is opened.  The weather and fuel pages call their load function at
\* once; the dashboard and the news page start the countdown and first wait
\* for initializeLocationAndWeather
InitPage ==
    /\ page \in Pages
    /\ csvText = <<>> /\ pc = "page" /\ records = <<>> /\ tokens = <<>>
    /\ rowLines = <<>> /\ exported = <<>> /\ reparsed = <<>>
    /\ parsed = [v \in 1..(MaxBodies + 1) |-> ParsedBody(page, v - 1)]
    /\ refreshCountdown = CountdownStart(page)
    /\ intervalLeft = -1
    /\ stored = -1 /\ filtered = NoneFiltered
    /\ last = NoLoad
    /\ waited = 0 /\ clicks = 0
    /\ UiIdle
    /\ ServerIdle
    /\ IF page \in {"alerts", "news"}
       THEN phase = "locating" /\ loads = <<>> /\ view = NoView
       ELSE /\ phase = "running"
            /\ loads = <<[stage |-> "fetch", overtaken |-> FALSE, alone |-> TRUE,
                          initial |-> TRUE, shown |-> NoView.content]>>
            /\ view = [NoView EXCEPT !.overlay = TRUE]

\* ---- the carousel of the dashboard ----
\* a + k and a % n on numbers that may be NaN; the remainder has the sign of
\* the dividend, and a remainder by 0 is NaN
Plus(a, k) == IF a.nan THEN NaNIndex ELSE Index(a.n + k)
Remainder(a, n) ==
    IF a.nan \/ n = 0 THEN NaNIndex
    ELSE IF a.n >= 0 THEN Index(a.n % n) ELSE Index(0 - ((0 - a.n) % n))

\* faulty variant of clearInterval: the interval keeps running
clearInterval_Noop(handle, live) == live

\* clearInterval(handle)
clearInterval(handle, live) == live \ {handle}

\* the handle setInterval returns: one no running interval has
setInterval(live) == CHOOSE id \in 1..(Cardinality(live) + 1) : id \notin live

\* startAlertSlide: the handle kept and the intervals running afterwards
startAlertSlide(handle, live) ==
    LET cleared == IF handle # 0 THEN clearInterval(handle, live) ELSE live
    IN [handle |-> setInterval(cleared), live |-> cleared \cup {setInterval(cleared)}]

\* resetAlertSlide
resetAlertSlide(handle, live) ==
    IF handle # 0 THEN startAlertSlide(handle, clearInterval(handle, live))
    ELSE [handle |-> handle, live |-> live]

\* goToAlert(index) with n active alerts: the index shown afterwards.  NaN is
\* neither below 0 nor at or above n and gets past the guard
goToAlert(current, index, n) ==
    IF ~index.nan /\ (index.n < 0 \/ index.n >= n) THEN current ELSE index

\* faulty variant of nextIndex: no wrap-around
nextIndex_NoWrap(current, n) == Plus(current, 1)

\* (currentAlertIndex + 1) % filteredAlerts.length
nextIndex(current, n) == Remainder(Plus(current, 1), n)

\* (currentAlertIndex - 1 + filteredAlerts.length) % filteredAlerts.length
prevIndex(current, n) == Remainder(Plus(Plus(current, -1), n), n)

\* goToAlert(index) as a step: the early return leaves the timer alone too
GoToAlert(index) ==
    LET n == Len(filtered.rows)
        passes == index.nan \/ (index.n >= 0 /\ index.n < n)
    IN /\ currentAlertIndex' = goToAlert(currentAlertIndex, index, n)
       /\ alertSlideInterval' = IF passes THEN resetAlertSlide(alertSlideInterval, timers).handle
                                ELSE alertSlideInterval
       /\ timers' = IF passes THEN resetAlertSlide(alertSlideInterval, timers).live
                    ELSE timers

\* ---- the table of the fuel page ----
rowsPerPage == 10       \* const rowsPerPage = 10

\* what the user may type into a search box
SearchTerms == {<<>>, <<"M", "a", "r">>, <<"F">>}

\* Number.prototype.toString for the numbers a price can be: the digits, with
\* a decimal point where the exponent is negative
NumberToString(v) ==
    LET a == IF v.m < 0 THEN 0 - v.m ELSE v.m
        sign == IF v.m < 0 THEN <<"-">> ELSE <<>>
        digits == IntToStr(a)
        padded == [k \in 1..(0 - v.e + 1 - Len(digits)) |-> "0"] \o digits
    IN CASE v.t = "nan" -> <<"N", "a", "N">>
         [] v.t = "inf" -> sign \o W_Infinity
         [] v.e >= 0 -> sign \o digits \o [k \in 1..v.e |-> "0"]
         [] OTHER -> sign \o SubSeq(padded, 1, Len(padded) + v.e) \o <<".">>
                          \o SubSeq(padded, Len(padded) + v.e + 1, Len(padded))

\* value.toString() of a cell of a fuel row
ValueToString(v) == IF v.t = "str" THEN v.s ELSE NumberToString(v)

\* Object.values(row).some(value => value.toString().toLowerCase().includes(searchTerm))
RowMatches(row, term) ==
    \E k \in DOMAIN row : includes(toLowerCase(ValueToString(row[k])), term)

\* displayData of updateTable: the rows of filteredData the search term leaves
displayData(data, rows, term) ==
    IF toLowerCase(term) = <<>> THEN rows
    ELSE LET kept == filter(rows, [i \in 1..Len(rows) |->
                                      RowMatches(data[rows[i]], toLowerCase(term))])
         IN [i \in 1..Len(kept) |-> rows[kept[i]]]

\* Math.ceil(totalRows / rowsPerPage)
totalPages(totalRows) == (totalRows + rowsPerPage - 1) \div rowsPerPage

\* ---- the news of the news page ----
\* the values of the category select
CategoryOptions == {W_all, W_weather, W_traffic}

\* the search of processNewsData: the term is in the title or in the summary
NewsMatches(news, term) ==
    \/ Truthy(Get(news, W_title)) /\ includes(toLowerCase(Get(news, W_title).s), term)
    \/ Truthy(Get(news, W_summary)) /\ includes(toLowerCase(Get(news, W_summary).s), term)

\* news.category && news.category.toLowerCase() === selectedCategory
InCategory(news, category) ==
    Truthy(Get(news, W_category)) /\ toLowerCase(Get(news, W_category).s) = category

\* faulty variant of filterNews: the category select is not looked at
filterNews_AnyCategory(news, term, category) ==
    filter(news, [i \in 1..Len(news) |->
                     toLowerCase(term) = <<>> \/ NewsMatches(news[i], toLowerCase(term))])

\* filteredNews of processNewsData, as positions in allNews
filterNews(news, term, category) ==
    filter(news, [i \in 1..Len(news) |->
                     /\ toLowerCase(term) = <<>> \/ NewsMatches(news[i], toLowerCase(term))
                     /\ category = W_all \/ InCategory(news[i], category)])

\* news.category || 'community'
GroupOf(news) == OrElse(Get(news, W_category), Str(W_community)).s

\* the grouping of processNewsData: every category of a filtered item gets the
\* list of the items of that category, in the order of filteredNews
groupNews(news, rows) ==
    [c \in {GroupOf(news[rows[i]]) : i \in 1..Len(rows)} |->
        LET own == filter(rows, [i \in 1..Len(rows) |-> GroupOf(news[rows[i]]) = c])
        IN [i \in 1..Len(own) |-> rows[own[i]]]]

\* a call of loadAlerts / loadNews / loadWeatherData / loadFuelData up to its
\* first await: the news page puts a spinner in place of the news, the weather
\* and fuel pages lay the loading overlay over the page, and the fetch is sent
StartLoad(by, initial) ==
    /\ Len(loads) < MaxInFlight
    /\ loads' = Append([i \in 1..Len(loads) |->
                            [loads[i] EXCEPT !.alone = FALSE, !.shown = NoView.content]],
                       [stage |-> "fetch", overtaken |-> FALSE, alone |-> loads = <<>>,
                        initial |-> initial,
                        shown |-> IF loads = <<>> THEN view.content ELSE NoView.content])
    /\ view' = CASE page = "news" -> [view EXCEPT !.content = Shown("loading", -1)]
                 [] page \in {"weather", "fuel"} -> [view EXCEPT !.overlay = TRUE]
                 [] OTHER -> view
    /\ last' = [NoLoad EXCEPT !.did = "started", !.by = by]

\* call i of the load function returns; applied: it replaced the stored records.
\* init, which awaited its own call, goes on to setupEventListeners and arms
\* setInterval(load, CONFIG.REFRESH_INTERVAL); on the dashboard it then calls
\* startAlertSlide
EndLoad(i, b, cause, applied) ==
    /\ loads' = [k \in 1..(Len(loads) - 1) |->
                    IF k < i THEN [loads[k] EXCEPT !.overtaken = @ \/ applied]
                    ELSE loads[k + 1]]
    /\ last' = [did |-> "ended", by |-> "none", body |-> b, cause |-> cause,
                overtaken |-> loads[i].overtaken, alone |-> loads[i].alone,
                shown |-> loads[i].shown, was |-> stored]
    /\ waited' = IF Len(loads) = 1 THEN 0 ELSE waited
    /\ IF loads[i].initial /\ phase = "starting"
       THEN /\ phase' = "running" /\ intervalLeft' = RefreshSeconds
            /\ IF page = "alerts"
               THEN /\ alertSlideInterval' = startAlertSlide(alertSlideInterval, timers).handle
                    /\ timers' = startAlertSlide(alertSlideInterval, timers).live
               ELSE UNCHANGED <<alertSlideInterval, timers>>
       ELSE UNCHANGED <<phase, intervalLeft, alertSlideInterval, timers>>

\* the catch block, and on the weather and fuel pages the finally block
Catch(i, cause) ==
    /\ view' = CASE page = "alerts" -> [view EXCEPT !.status = "disconnected"]
                 [] page = "news" -> [view EXCEPT !.status = "disconnected",
                                                  !.content = Shown("error", -1)]
                 [] OTHER -> [view EXCEPT !.status = "alerted", !.overlay = FALSE]
    /\ EndLoad(i, -1, cause, FALSE)
    /\ UNCHANGED <<stored, filtered, refreshCountdown, clicks, currentAlertIndex, currentPage,
                   searchTerm, appliedRange, selectedCategory, newsByCategory>>

\* init of the dashboard and the news page: the location is known, the first load
InitialLoad ==
    /\ phase = "locating"
    /\ StartLoad("init", TRUE)
    /\ phase' = "starting"
    /\ waited' = 0
    /\ UNCHANGED <<page, parseVars, serverVars, parsed, uiVars, refreshCountdown, intervalLeft, stored, filtered,
                   clicks>>

\* the one-second interval of startCountdowns / startAutoRefresh
Tick ==
    /\ phase # "idle"
    /\ intervalLeft # 0
    /\ loads # <<>> => waited < MaxWait
    /\ phase = "locating" => waited < MaxWait
    /\ waited' = IF loads # <<>> \/ phase = "locating" THEN waited + 1 ELSE 0
    /\ intervalLeft' = IF intervalLeft > 0 THEN intervalLeft - 1 ELSE intervalLeft
    /\ IF refreshCountdown - 1 <= 0
       THEN refreshCountdown' = CountdownStart(page) /\ StartLoad("countdown", FALSE)
       ELSE /\ refreshCountdown' = refreshCountdown - 1
            /\ last' = NoLoad
            /\ UNCHANGED <<loads, view>>
    /\ UNCHANGED <<page, parseVars, serverVars, parsed, uiVars, phase, stored, filtered, clicks>>

\* setInterval(() => { loadAlerts(); }, CONFIG.REFRESH_INTERVAL), and the same
\* with loadNews on the news page
IntervalFire ==
    /\ intervalLeft = 0
    /\ StartLoad("interval", FALSE)
    /\ intervalLeft' = RefreshSeconds
    /\ waited' = IF loads = <<>> THEN 0 ELSE waited
    /\ UNCHANGED <<page, parseVars, serverVars, parsed, uiVars, refreshCountdown, phase, stored, filtered, clicks>>

\* the refresh button of the news page and the Retry button of its error
\* message call loadNews; the refresh button of the weather page calls
\* refreshWeatherData, which also restarts the countdown
ManualRefresh ==
    /\ clicks < MaxClicks
    /\ \/ page = "news" /\ (phase = "running" \/ view.content.kind = "error")
       \/ page = "weather"
    /\ StartLoad("manual", FALSE)
    /\ clicks' = clicks + 1
    /\ refreshCountdown' = IF page = "weather" THEN ShortCountdown ELSE refreshCountdown
    /\ waited' = IF loads = <<>> THEN 0 ELSE waited
    /\ UNCHANGED <<page, parseVars, serverVars, parsed, uiVars, intervalLeft, phase, stored, filtered>>

\* await fetch(...) resolves with an OK response
FetchResolve ==
    \E i \in 1..Len(loads) :
        /\ loads[i].stage = "fetch"
        /\ loads' = [loads EXCEPT ![i].stage = "text"]
        /\ last' = NoLoad
        /\ UNCHANGED <<page, parseVars, serverVars, parsed, uiVars, refreshCountdown, intervalLeft, phase, stored,
                       filtered, view, waited, clicks>>

\* await fetch(...) resolves with a response that is not OK: the dashboard and
\* the news page throw, the weather and fuel pages go on to read the body
FetchNotOk ==
    \E i \in 1..Len(loads) :
        /\ loads[i].stage = "fetch"
        /\ IF page \in {"alerts", "news"}
           THEN Catch(i, "http")
           ELSE /\ loads' = [loads EXCEPT ![i].stage = "text of an error"]
                /\ last' = NoLoad
                /\ UNCHANGED <<refreshCountdown, intervalLeft, phase, stored, filtered,
                               view, waited, clicks, uiVars>>
        /\ UNCHANGED <<page, parseVars, serverVars, parsed>>

\* fetch(...) or response.text() rejects
TransportError ==
    \E i \in 1..Len(loads) :
        /\ Catch(i, "transport")
        /\ UNCHANGED <<page, parseVars, serverVars, parsed>>

\* await response.text() resolves with some version of the file, or with the
\* body of the error: the rest of the try block runs in one piece
TextResolve ==
    \E i \in 1..Len(loads), b \in 0..MaxBodies :
        /\ \/ loads[i].stage = "text" /\ b > 0
           \/ loads[i].stage = "text of an error" /\ b = 0
        /\ stored' = Replace(stored, loads[i], b)
        /\ filtered' = CASE page = "alerts" ->
                                [of |-> stored', rows |-> ActiveAlerts(Records(stored'))]
                         [] page = "weather" -> filtered
                         [] page = "news" ->
                                [of |-> stored',
                                 rows |-> filterNews(Records(stored'), searchTerm,
                                                     selectedCategory)]
                         [] OTHER -> [of |-> stored', rows |-> All(Records(stored'))]
        /\ newsByCategory' = IF page = "news"
                             THEN groupNews(Records(stored'), filtered'.rows)
                             ELSE newsByCategory
        /\ currentAlertIndex' = IF page = "alerts" THEN Index(0) ELSE currentAlertIndex
        /\ view' = [content |-> Shown("data", b),
                    overlay |-> FALSE,
                    status |-> IF page \in {"alerts", "news"} THEN "connected"
                               ELSE view.status]
        /\ EndLoad(i, b, IF b = 0 THEN "http" ELSE "ok", TRUE)
        /\ UNCHANGED <<page, parseVars, serverVars, parsed, refreshCountdown, clicks, currentPage,
                       searchTerm, appliedRange, selectedCategory>>

\* the Apply button of the fuel page, with both dates set and in order
ApplyDateRangeFilter ==
    /\ page = "fuel" /\ phase = "running"
    /\ LET rowDate == [i \in 1..Len(Records(stored)) |->
                           DateKey(Get(Records(stored)[i], W_date).s)]
       IN \E startDate \in RangeDates, endDate \in RangeDates :
           /\ DateKey(startDate) <= DateKey(endDate)
           /\ filtered' = [of |-> stored,
                            rows |-> filter(Records(stored),
                                            [i \in 1..Len(Records(stored)) |->
                                                /\ rowDate[i] >= DateKey(startDate)
                                                /\ rowDate[i] <= DateKey(endDate)])]
           /\ appliedRange' = <<startDate, endDate>>
    /\ last' = NoLoad
    /\ UNCHANGED <<page, parseVars, serverVars, parsed, refreshCountdown, intervalLeft, phase, loads, stored,
                   view, waited, clicks, currentAlertIndex, alertSlideInterval, timers,
                   currentPage, searchTerm, selectedCategory, newsByCategory>>

\* the Reset button of the fuel page
ResetFilters ==
    /\ page = "fuel" /\ phase = "running"
    /\ filtered' = [of |-> stored, rows |-> All(Records(stored))]
    /\ appliedRange' = <<>>
    /\ searchTerm' = <<>>
    /\ last' = NoLoad
    /\ UNCHANGED <<page, parseVars, serverVars, parsed, refreshCountdown, intervalLeft, phase, loads, stored,
                   view, waited, clicks, currentAlertIndex, alertSlideInterval, timers,
                   currentPage, selectedCategory, newsByCategory>>

\* what a step that is no load and touches neither the carousel nor the
\* tables leaves alone
loadVars == <<page, parseVars, serverVars, parsed, refreshCountdown, intervalLeft, phase, loads, stored,
              view, waited, clicks>>

\* the next button of the carousel, enabled with more than one active alert,
\* and the ArrowRight key, which is not guarded
NextAlert ==
    /\ page = "alerts" /\ phase = "running"
    /\ GoToAlert(nextIndex(currentAlertIndex, Len(filtered.rows)))
    /\ last' = NoLoad
    /\ UNCHANGED <<loadVars, filtered, currentPage, searchTerm, appliedRange, selectedCategory,
                   newsByCategory>>

\* the prev button of the carousel and the ArrowLeft key
PrevAlert ==
    /\ page = "alerts" /\ phase = "running"
    /\ GoToAlert(prevIndex(currentAlertIndex, Len(filtered.rows)))
    /\ last' = NoLoad
    /\ UNCHANGED <<loadVars, filtered, currentPage, searchTerm, appliedRange, selectedCategory,
                   newsByCategory>>

\* a click on one of the indicators renderAlerts made, one per active alert
IndicatorClick ==
    /\ page = "alerts" /\ view.content.kind = "data"
    /\ \E index \in 0..(Len(filtered.rows) - 1) : GoToAlert(Index(index))
    /\ last' = NoLoad
    /\ UNCHANGED <<loadVars, filtered, currentPage, searchTerm, appliedRange, selectedCategory,
                   newsByCategory>>

\* the callback of an auto-slide interval that is running
SlideTick ==
    /\ page = "alerts" /\ timers # {}
    /\ IF Len(filtered.rows) > 1
       THEN GoToAlert(nextIndex(currentAlertIndex, Len(filtered.rows)))
       ELSE UNCHANGED <<currentAlertIndex, alertSlideInterval, timers>>
    /\ last' = NoLoad
    /\ UNCHANGED <<loadVars, filtered, currentPage, searchTerm, appliedRange, selectedCategory,
                   newsByCategory>>

\* typing into the search box of the fuel table: filterTable
FilterTable ==
    /\ page = "fuel"
    /\ \E term \in SearchTerms \ {searchTerm} : searchTerm' = term
    /\ currentPage' = 1
    /\ last' = NoLoad
    /\ UNCHANGED <<loadVars, filtered, currentAlertIndex, alertSlideInterval, timers,
                   appliedRange, selectedCategory, newsByCategory>>

\* the pages of the table as updatePaginationControls last saw them
ShownPages == totalPages(Len(displayData(Records(filtered.of), filtered.rows, searchTerm)))

\* the Previous button, disabled on page 1: goToPrevPage
GoToPrevPage ==
    /\ page = "fuel"
    /\ currentPage # 1
    /\ currentPage' = IF currentPage > 1 THEN currentPage - 1 ELSE currentPage
    /\ last' = NoLoad
    /\ UNCHANGED <<loadVars, filtered, currentAlertIndex, alertSlideInterval, timers,
                   searchTerm, appliedRange, selectedCategory, newsByCategory>>

\* the Next button, disabled on the last page of the rows shown and when
\* there is none: goToNextPage counts the pages of filteredData
GoToNextPage ==
    /\ page = "fuel"
    /\ view.content.kind = "data" => ~(currentPage = ShownPages \/ ShownPages = 0)
    /\ currentPage' = IF currentPage < totalPages(Len(filtered.rows))
                      THEN currentPage + 1 ELSE currentPage
    /\ last' = NoLoad
    /\ UNCHANGED <<loadVars, filtered, currentAlertIndex, alertSlideInterval, timers,
                   searchTerm, appliedRange, selectedCategory, newsByCategory>>

\* processNewsData as a step, with the search box and the select as given
ProcessNewsData(term, category) ==
    /\ filtered' = [of |-> stored, rows |-> filterNews(Records(stored), term, category)]
    /\ newsByCategory' = groupNews(Records(stored), filtered'.rows)
    /\ last' = NoLoad
    /\ UNCHANGED <<loadVars, currentAlertIndex, alertSlideInterval, timers, currentPage,
                   appliedRange>>

\* typing into the search box of the news page
NewsSearch ==
    /\ page = "news" /\ phase = "running"
    /\ \E term \in SearchTerms \ {searchTerm, <<>>} :
          /\ searchTerm' = term
          /\ ProcessNewsData(term, selectedCategory)
    /\ UNCHANGED selectedCategory

\* the button that clears the search box
ClearSearch ==
    /\ page = "news" /\ phase = "running"
    /\ searchTerm # <<>>
    /\ searchTerm' = <<>>
    /\ ProcessNewsData(<<>>, selectedCategory)
    /\ UNCHANGED selectedCategory

\* another option of the category select is chosen
CategoryChange ==
    /\ page = "news" /\ phase = "running"
    /\ \E category \in CategoryOptions \ {selectedCategory} :
          /\ selectedCategory' = category
          /\ ProcessNewsData(searchTerm, category)
    /\ UNCHANGED searchTerm

\* the countdown, the refresh interval or a refresh button starts a load, seen
\* without the clock: between two steps of the user any time may have gone by
Reload ==
    /\ phase # "idle"
    /\ StartLoad("timer", FALSE)
    /\ waited' = IF loads = <<>> THEN 0 ELSE waited
    /\ UNCHANGED <<page, parseVars, serverVars, parsed, uiVars, refreshCountdown, intervalLeft, phase,
                   stored, filtered, clicks>>

\* the pages with their timers: what the loads do, second by second
NextPage ==
    \/ InitialLoad \/ Tick \/ IntervalFire \/ ManualRefresh
    \/ FetchResolve \/ FetchNotOk \/ TransportError \/ TextResolve
    \/ ApplyDateRangeFilter \/ ResetFilters

\* the dashboard with its user: the loads, started at any moment, and the
\* carousel
InitDashboard == page = "alerts" /\ InitPage

NextDashboard ==
    \/ InitialLoad \/ Reload
    \/ FetchResolve \/ FetchNotOk \/ TransportError \/ TextResolve
    \/ NextAlert \/ PrevAlert \/ IndicatorClick \/ SlideTick

SpecDashboard == InitDashboard /\ [][NextDashboard]_vars

\* the fuel page with its user: the loads, the date range and the table
InitFuelPage == page = "fuel" /\ InitPage

NextFuelPage ==
    \/ Reload
    \/ FetchResolve \/ FetchNotOk \/ TransportError \/ TextResolve
    \/ ApplyDateRangeFilter \/ ResetFilters
    \/ FilterTable \/ GoToPrevPage \/ GoToNextPage

SpecFuelPage == InitFuelPage /\ [][NextFuelPage]_vars

\* the news page with its user: the loads, the search box and the category
\* select
InitNewsPage == page = "news" /\ InitPage

NextNewsPage ==
    \/ InitialLoad \/ Reload
    \/ FetchResolve \/ FetchNotOk \/ TransportError \/ TextResolve
    \/ NewsSearch \/ ClearSearch \/ CategoryChange

SpecNewsPage == InitNewsPage /\ [][NextNewsPage]_vars

SpecPage == InitPage /\ [][NextPage]_vars

\* ------------------------------------------------------------------------
\* The file server (server.js): GET /alerts and GET /news-data
\* ------------------------------------------------------------------------
\* what the two CSV files may hold
FileTexts == {<<>>,
              <<"i", "d", ",", "i", "s", "_", "a", "c", "t", "i", "v", "e", "\n", "1", ",", "T", "R", "U", "E">>,
              <<"t", "i", "t", "l", "e", "\n", "F", "l", "o", "o", "d", "\n">>}

\* a file is missing, or it is there and can or cannot be read
FileStates ==
    {NoFile} \cup {[exists |-> TRUE, readable |-> r, content |-> t] :
                       r \in BOOLEAN, t \in FileTexts}

W_ErrorReading == <<"E", "r", "r", "o", "r", " ", "r", "e", "a", "d", "i", "n", "g", " ",
                    "n", "e", "w", "s", " ", "C", "S", "V", " ", "f", "i", "l", "e">>

\* the server is started
InitServer ==
    /\ page = "server"
    /\ csvText = <<>> /\ pc = "listening" /\ records = <<>> /\ tokens = <<>>
    /\ rowLines = <<>> /\ exported = <<>> /\ reparsed = <<>>
    /\ parsed = <<>> /\ refreshCountdown = 0 /\ intervalLeft = -1 /\ phase = "idle"
    /\ loads = <<>> /\ stored = -1 /\ filtered = NoneFiltered /\ view = NoView
    /\ last = NoLoad /\ waited = 0 /\ clicks = 0
    /\ UiIdle
    /\ disk \in [{"alerts", "news-data"} -> FileStates]
    /\ response = NoResponse

\* res.setHeader('Content-Type', 'text/csv') and then res.send(body) or
\* res.sendFile(path) of a file that can be read
CsvResponse(route, body) ==
    [route |-> route, status |-> 200, contentType |-> "text/csv", body |-> body]

\* what Express sends when nothing set the Content-Type of a string body, and
\* its own error page when sendFile fails
HtmlResponse(route, body) ==
    [route |-> route, status |-> 500, contentType |-> "text/html", body |-> body]

\* app.get('/alerts', ...): the file is streamed by sendFile, the word empty
\* is sent when it does not exist
GetAlerts ==
    /\ page = "server"
    /\ response' = IF disk["alerts"].exists
                   THEN IF disk["alerts"].readable
                        THEN CsvResponse("alerts", disk["alerts"].content)
                        ELSE HtmlResponse("alerts", <<"E", "r", "r", "o", "r">>)
                   ELSE CsvResponse("alerts", W_empty)
    /\ UNCHANGED <<page, parseVars, pageVars, disk>>

\* app.get('/news-data', ...): the file is read by readFileSync inside a try
\* block whose catch answers 500 'Error reading news CSV file'
GetNewsData ==
    /\ page = "server"
    /\ response' = IF disk["news-data"].exists
                   THEN IF disk["news-data"].readable
                        THEN CsvResponse("news-data", disk["news-data"].content)
                        ELSE HtmlResponse("news-data", W_ErrorReading)
                   ELSE CsvResponse("news-data", W_empty)
    /\ UNCHANGED <<page, parseVars, pageVars, disk>>

NextServer == GetAlerts \/ GetNewsData

SpecServer == InitServer /\ [][NextServer]_vars

\* ------------------------------------------------------------------------
\* Vocabulary of the properties
\* ------------------------------------------------------------------------
\* the header names as the page that ran sees them
PageHeaders == IF page = "news" THEN NewsHeaders(csvText) ELSE Headers(csvText)

\* the record property a header's value goes to
PropertyOf(h) == IF page = "news" THEN NewsProperty(h) ELSE h

\* a column whose cell is kept as text: not the news category, not a weather
\* measurement or JSON cell, and on the fuel page only the date columns
TextColumn(h) ==
    CASE page = "news" -> NewsProperty(h) # W_category
      [] page = "weather" -> h \notin {W_forecast, W_alerts, W_temperature, W_feels_like,
                                       W_humidity, W_wind_speed, W_rain}
      [] page = "fuel" -> includes(h, W_date) /\ h # W_date_str
      [] OTHER -> TRUE

\* no other header goes to the same property
OwnProperty(i) ==
    \A j \in 1..Len(PageHeaders) :
        j # i => PropertyOf(PageHeaders[j]) # PropertyOf(PageHeaders[i])

\* the comma-separated fields of a line, surrounding blanks removed
CommaFields(line) == [k \in 1..Len(split(line, COMMA)) |-> trim(split(line, COMMA)[k])]

HasQuote(s) == \E k \in 1..Len(s) : s[k] = DQ
HasComma(s) == \E k \in 1..Len(s) : s[k] = COMMA

\* the fields of a line as CSV defines them: commas inside double quotes do not
\* separate, and the quotes stay in the field
RECURSIVE QuotedScan(_, _, _, _, _)
QuotedScan(line, i, current, inQuotes, fields) ==
    IF i > Len(line) THEN Append(fields, current)
    ELSE IF line[i] = COMMA /\ ~inQuotes THEN QuotedScan(line, i + 1, <<>>, inQuotes, Append(fields, current))
    ELSE QuotedScan(line, i + 1, Append(current, line[i]),
                    IF line[i] = DQ THEN ~inQuotes ELSE inQuotes, fields)
CsvFields(line) == QuotedScan(line, 1, <<>>, FALSE, <<>>)

\* a field wrapped in double quotes
Wrapped(f) == Len(f) >= 2 /\ f[1] = DQ /\ f[Len(f)] = DQ
Inner(f) == SubSeq(f, 2, Len(f) - 1)

\* every field of the line but the i-th is free of double quotes
OthersPlain(fields, i) == \A j \in 1..Len(fields) : j # i => ~HasQuote(fields[j])

\* ------------------------------------------------------------------------
\* C1: in every variant the value under header i is the i-th comma-separated
\* field of the line, also when earlier fields are empty (lines without
\* double quotes, text columns)
\* ------------------------------------------------------------------------
C1_PositionalZip ==
    pc = "done" =>
        \A k \in 1..Len(records) : \A i \in 1..Len(PageHeaders) :
            (/\ ~HasQuote(rowLines[k])
             /\ i <= Len(CommaFields(rowLines[k]))
             /\ TextColumn(PageHeaders[i])
             /\ OwnProperty(i))
            => Get(records[k], PropertyOf(PageHeaders[i])) = Str(CommaFields(rowLines[k])[i])

\* ------------------------------------------------------------------------
\* C2: in every variant a field wrapped in double quotes that contains commas
\* is stored whole, without the outer quotes, under its own header, and the
\* other fields stay under theirs
\* ------------------------------------------------------------------------
C2_QuotedComma ==
    pc = "done" =>
        \A k \in 1..Len(records) :
            LET fields == CsvFields(rowLines[k])
            IN \A i \in 1..Len(fields) :
                (Wrapped(fields[i]) /\ HasComma(Inner(fields[i])) /\ ~HasQuote(Inner(fields[i]))
                 /\ OthersPlain(fields, i))
                => \A j \in 1..Len(PageHeaders) :
                     (j <= Len(fields) /\ TextColumn(PageHeaders[j]) /\ OwnProperty(j))
                     => Get(records[k], PropertyOf(PageHeaders[j])) =
                            Str(trim(IF j = i THEN Inner(fields[j]) ELSE fields[j]))

\* ------------------------------------------------------------------------
\* C3: the number of records equals the number of non-blank lines after the
\* header line
\* ------------------------------------------------------------------------
NonBlankDataLines(text) ==
    Cardinality({k \in 2..Len(split(text, NL)) : trim(split(text, NL)[k]) # <<>>})

C3_RowCount == pc = "done" => Len(records) = NonBlankDataLines(csvText)

\* ------------------------------------------------------------------------
\* C4: a body that is empty, a lone header line, or the token `empty` gives
\* the empty record list in each of the four variants, and the call returns
\* ------------------------------------------------------------------------
NoDataLine(text) == \A k \in 2..Len(split(text, NL)) : split(text, NL)[k] = <<>>

C4_Degenerate == (page # "none" /\ NoDataLine(csvText)) => (pc = "done" /\ records = <<>>)

C4_Witness == pc = "done" /\ page = "weather" /\ csvText = W_empty /\ records = <<>>

\* ------------------------------------------------------------------------
\* C5: a quoted field that writes each literal double quote as two double
\* quotes is stored with one double quote per pair and without the outer quotes
\* ------------------------------------------------------------------------
\* text in which double quotes only occur two by two
RECURSIVE Doubled(_)
Doubled(x) ==
    IF x = <<>> THEN TRUE
    ELSE IF x[1] # DQ THEN Doubled(Tail(x))
    ELSE Len(x) >= 2 /\ x[2] = DQ /\ Doubled(SubSeq(x, 3, Len(x)))

\* one double quote for each pair
RECURSIVE OnePerPair(_)
OnePerPair(x) ==
    IF x = <<>> THEN <<>>
    ELSE IF x[1] = DQ THEN <<DQ>> \o OnePerPair(SubSeq(x, 3, Len(x)))
    ELSE <<x[1]>> \o OnePerPair(Tail(x))

\* the text without any double quote
RECURSIVE NoQuotes(_)
NoQuotes(x) ==
    IF x = <<>> THEN <<>>
    ELSE IF x[1] = DQ THEN NoQuotes(Tail(x)) ELSE <<x[1]>> \o NoQuotes(Tail(x))

\* the i-th field of the line is a quoted field with doubled quotes inside
EscapedAt(fields, i) ==
    /\ Wrapped(fields[i]) /\ HasQuote(Inner(fields[i])) /\ Doubled(Inner(fields[i]))
    /\ OthersPlain(fields, i)

StoredAt(k, p, v) ==
    (p <= Len(PageHeaders) /\ TextColumn(PageHeaders[p]) /\ OwnProperty(p))
    => Get(records[k], PropertyOf(PageHeaders[p])) = Str(v)

W_HeSaidHi == <<"H", "e", " ", "s", "a", "i", "d", " ", "\"", "h", "i", "\"">>
Vocabulary == {W_traffic, W_weather, W_safety, W_crime, W_government, W_economy,
               W_health, W_environment, W_social, W_community}

C6_ClosedVocabulary ==
    page = "news" =>
        /\ pc = "done"
        /\ \A k \in 1..Len(records) :
              /\ W_category \in DOMAIN records[k]
              /\ records[k][W_category].t = "str"
              /\ records[k][W_category].s \in Vocabulary

W_xyz == <<"x", "y", "z", "-", "u", "n", "k", "n", "o", "w", "n">>
C6_Witness ==
    /\ pc = "done" /\ page = "news"
    /\ \E k \in 1..Len(records) :
          /\ \E p \in 1..Len(tokens[k]) :
                p <= Len(PageHeaders) /\ PageHeaders[p] = W_category /\ tokens[k][p] = W_xyz
          /\ records[k][W_category] = Str(W_community)

\* ------------------------------------------------------------------------
\* C7: the category of a news record is the result of the cascade
\* ------------------------------------------------------------------------
\* the cell at 1-based position p of a line's values, '' past the end
Cell(values, p) == IF p <= Len(values) THEN values[p] ELSE <<>>

\* the cell of the last column whose header is one of names, '' if there is none
ColumnCell(headers, values, names) ==
    LET at == {p \in 1..Len(headers) : headers[p] \in names}
    IN IF at = {} THEN <<>>
       ELSE Cell(values, CHOOSE p \in at : \A q \in at : q <= p)

\* the first non-empty cell under a header whose name contains 'category'
ContainsCell(headers, values) ==
    LET at == {p \in 1..Len(headers) :
                  includes(headers[p], W_category) /\ Cell(values, p) # <<>>}
    IN IF at = {} THEN <<>>
       ELSE Cell(values, CHOOSE p \in at : \A q \in at : p <= q)

Alias(c) ==
    IF \E kv \in categoryMapping : kv[1] = c
    THEN (CHOOSE kv \in categoryMapping : kv[1] = c)[2]
    ELSE c

Cascade(headers, values, names) ==
    LET mapped == ColumnCell(headers, values, names)
        found == IF mapped # <<>> THEN mapped ELSE ContainsCell(headers, values)
        given == IF found # <<>> THEN found ELSE W_uncategorized
        alias == Alias(toLowerCase(trim(given)))
    IN IF alias \in Vocabulary THEN alias ELSE W_community

\* the claim as stated: step 1 takes the value of the category column
C7_Original ==
    (pc = "done" /\ page = "news") =>
        \A k \in 1..Len(records) :
            records[k][W_category] = Str(Cascade(PageHeaders, tokens[k], {W_category}))

\* C7 as amended: step 1 takes the value of the last column named category or type
C7_Cascade ==
    (pc = "done" /\ page = "news") =>
        \A k \in 1..Len(records) :
            records[k][W_category] = Str(Cascade(PageHeaders, tokens[k], {W_category, W_type}))

W_Transport == <<"T", "r", "a", "n", "s", "p", "o", "r", "t">>
C7_Witness ==
    /\ pc = "done" /\ page = "news"
    /\ \E k \in 1..Len(records) :
          /\ ColumnCell(PageHeaders, tokens[k], {W_category, W_type}) = W_Transport
          /\ records[k][W_category] = Str(W_traffic)

\* ------------------------------------------------------------------------
\* C8: in the weather and fuel parsers every numeric field is a number, never
\* NaN, and a cell that is empty or not a number is stored as 0
\* ------------------------------------------------------------------------
\* the text does not begin (after blanks and a sign) with a digit, with a
\* point and a digit, or with the word Infinity
NotANumber(c) ==
    LET s == TrimLeft(c)
        u == IF s # <<>> /\ s[1] \in {"+", "-"} THEN Tail(s) ELSE s
    IN ~ \/ (u # <<>> /\ u[1] \in Digits)
         \/ (Len(u) >= 2 /\ u[1] = "." /\ u[2] \in Digits)
         \/ (Len(u) >= 8 /\ SubSeq(u, 1, 8) = W_Infinity)

IsNumber(v) == v.t \in {"num", "inf"}

W_abc == <<"a", "b", "c">>
AlertFields == {<<"t", "i", "t", "l", "e">>,
               <<"d", "e", "s", "c", "r", "i", "p", "t", "i", "o", "n">>,
               <<"s", "e", "v", "e", "r", "i", "t", "y">>,
               <<"c", "a", "t", "e", "g", "o", "r", "y">>,
               <<"s", "u", "b", "c", "a", "t", "e", "g", "o", "r", "y">>,
               <<"l", "o", "c", "a", "t", "i", "o", "n">>,
               <<"s", "o", "u", "r", "c", "e">>,
               <<"s", "o", "u", "r", "c", "e", "_", "i", "d">>,
               <<"i", "s", "_", "a", "c", "t", "i", "v", "e">>}
NewsFields == {<<"t", "i", "t", "l", "e">>,
              <<"s", "u", "m", "m", "a", "r", "y">>,
              <<"c", "a", "t", "e", "g", "o", "r", "y">>,
              <<"s", "u", "b", "c", "a", "t", "e", "g", "o", "r", "y">>,
              <<"l", "o", "c", "a", "t", "i", "o", "n">>,
              <<"i", "m", "p", "a", "c", "t">>,
              <<"d", "a", "t", "e">>}
WeatherFields == {<<"l", "o", "c", "a", "t", "i", "o", "n">>,
                 <<"d", "e", "s", "c", "r", "i", "p", "t", "i", "o", "n">>,
                 <<"t", "i", "m", "e", "s", "t", "a", "m", "p">>,
                 <<"t", "e", "m", "p", "e", "r", "a", "t", "u", "r", "e">>,
                 <<"f", "e", "e", "l", "s", "_", "l", "i", "k", "e">>,
                 <<"h", "u", "m", "i", "d", "i", "t", "y">>,
                 <<"w", "i", "n", "d", "_", "s", "p", "e", "e", "d">>,
                 <<"r", "a", "i", "n">>,
                 <<"f", "o", "r", "e", "c", "a", "s", "t">>,
                 <<"a", "l", "e", "r", "t", "s">>}
FuelFields == {<<"d", "a", "t", "e", "_", "s", "t", "r">>,
              <<"d", "a", "t", "e">>,
              <<"p", "e", "t", "r", "o", "l", "_", "9", "5">>,
              <<"p", "e", "t", "r", "o", "l", "_", "9", "2">>,
              <<"a", "u", "t", "o", "_", "d", "i", "e", "s", "e", "l">>,
              <<"s", "u", "p", "e", "r", "_", "d", "i", "e", "s", "e", "l">>,
              <<"k", "e", "r", "o", "s", "e", "n", "e">>,
              <<"i", "n", "d", "u", "s", "t", "r", "i", "a", "l", "_", "k", "e", "r", "o", "s", "e", "n", "e">>,
              <<"f", "u", "r", "n", "a", "c", "e", "_", "8", "0", "0">>,
              <<"f", "u", "r", "n", "a", "c", "e", "_", "1", "5", "0", "0", "_", "h", "i", "g", "h">>,
              <<"f", "u", "r", "n", "a", "c", "e", "_", "1", "5", "0", "0", "_", "l", "o", "w">>}
DeclaredFields ==
    CASE page = "alerts" -> AlertFields
      [] page = "news" -> NewsFields
      [] page = "weather" -> WeatherFields
      [] page = "fuel" -> FuelFields
      [] OTHER -> {}

C9_AllFieldsDefined ==
    pc = "done" =>
        \A k \in 1..Len(records) : \A f \in DeclaredFields :
            f \in DOMAIN records[k] /\ records[k][f].t # "undefined"

\* ------------------------------------------------------------------------
\* C10: a data line with fewer comma-separated fields than there are headers
\* raises no error in any variant, and every header without a field on the
\* line gets '' (text columns)
\* ------------------------------------------------------------------------
ShortLineIn(text) ==
    \E k \in 2..Len(split(text, NL)) :
        /\ trim(split(text, NL)[k]) # <<>>
        /\ Len(split(split(text, NL)[k], COMMA)) < Len(split(split(text, NL)[1], COMMA))

C10_ShortRow ==
    /\ (page # "none" /\ ShortLineIn(csvText)) => pc = "done"
    /\ pc = "done" =>
          \A k \in 1..Len(records) : \A i \in 1..Len(PageHeaders) :
              (i > Len(split(rowLines[k], COMMA)) /\ TextColumn(PageHeaders[i]) /\ OwnProperty(i))
              => Get(records[k], PropertyOf(PageHeaders[i])) = Str(<<>>)

\* ------------------------------------------------------------------------
\* C11: in the weather parser forecast and alerts are always lists: a cell
\* whose text, as the tokenizer returns it (doubled quotes un-escaped), starts
\* with '[' and is valid JSON gives the array; every other cell gives []
\* ------------------------------------------------------------------------
Decoded(text) ==
    IF startsWith(text, "[") /\ JSONparse(text).ok THEN JSONparse(text).val ELSE Arr(<<>>)

C11_NestedJson ==
    (pc = "done" /\ page = "weather") =>
        \A k \in 1..Len(records) : \A c \in {W_forecast, W_alerts} :
            /\ c \in DOMAIN records[k]
            /\ records[k][c].t = "array"
            /\ records[k][c] = Decoded(ColumnCell(PageHeaders, tokens[k], {c}))

\* ------------------------------------------------------------------------
\* C12: the same cell text gives the same list in the forecast column and in
\* the alerts column
\* ------------------------------------------------------------------------
C12_SamePolicy ==
    (pc = "done" /\ page = "weather") =>
        \A k \in 1..Len(records) :
            (/\ \E p \in 1..Len(PageHeaders) : PageHeaders[p] = W_forecast
             /\ \E p \in 1..Len(PageHeaders) : PageHeaders[p] = W_alerts
             /\ ColumnCell(PageHeaders, tokens[k], {W_forecast})
                    = ColumnCell(PageHeaders, tokens[k], {W_alerts}))
            => records[k][W_forecast] = records[k][W_alerts]

\* ------------------------------------------------------------------------
\* C19: in the alerts and news tokenizers a line with unbalanced double
\* quotes raises no error, and everything after the unmatched quote, commas
\* included, is part of the single last field
\* ------------------------------------------------------------------------
QuoteCount(line) == Cardinality({p \in 1..Len(line) : line[p] = DQ})
LastQuote(line) == CHOOSE q \in 1..Len(line) : line[q] = DQ /\ \A r \in (q + 1)..Len(line) : line[r] # DQ
AfterLastQuote(line) == SubSeq(line, LastQuote(line) + 1, Len(line))
BeforeLastQuote(line) == SubSeq(line, 1, LastQuote(line) - 1)
IsSuffix(x, y) == Len(x) <= Len(y) /\ SubSeq(y, Len(y) - Len(x) + 1, Len(y)) = x

C19_UnbalancedQuotes ==
    page \in {"alerts", "news"} =>
        /\ pc = "done"
        /\ \A k \in 1..Len(records) :
              QuoteCount(rowLines[k]) % 2 = 1
              => /\ Len(tokens[k]) = Len(CsvFields(BeforeLastQuote(rowLines[k])))
                 /\ IsSuffix(trim(AfterLastQuote(rowLines[k])), tokens[k][Len(tokens[k])])

C19_Witness ==
    /\ pc = "done" /\ page = "alerts"
    /\ \E k \in 1..Len(records) :
          /\ QuoteCount(rowLines[k]) % 2 = 1
          /\ HasComma(AfterLastQuote(rowLines[k]))
          /\ HasComma(tokens[k][Len(tokens[k])])
          /\ Len(tokens[k]) = 2

\* ------------------------------------------------------------------------
\* C20: in every variant the header names are the fields that the variant's
\* own data tokenizer produces for the header line (the news page lowercases
\* them; empty fields after the last header are not counted)
\* ------------------------------------------------------------------------
HeaderLine == Lines(csvText)[1]

DataTokenizer(line) ==
    CASE page \in {"alerts", "news"} -> SimpleTokens(line)
      [] page = "weather" -> RegexTokens(line).values
      [] OTHER -> SplitTokens(line)

C20_HeaderTokenizer ==
    (pc = "done" /\ ~(page = "weather" /\ RegexTokens(HeaderLine).diverged)) =>
        LET toks == DataTokenizer(HeaderLine)
        IN /\ Len(PageHeaders) <= Len(toks)
           /\ \A i \in 1..Len(toks) :
                 IF i > Len(PageHeaders) THEN toks[i] = <<>>
                 ELSE PageHeaders[i] = (IF page = "news" THEN toLowerCase(toks[i]) ELSE toks[i])

\* ------------------------------------------------------------------------
\* C13: round trip on the fuel page: the text exportData writes, parsed again
\* by the fuel parseCSV, gives as many records, each with the same date_str
\* and the same nine prices (to the two decimals written) under the same names
\* ------------------------------------------------------------------------
\* the price as toFixed(2) writes it, read back as a number
Rounded(v) == IF v.t = "num" THEN parseFloatStr(toFixed2(v)) ELSE v

C13_RoundTrip ==
    pc = "reparsed" =>
        /\ Len(reparsed) = Len(records)
        /\ \A k \in 1..Len(records) :
              k <= Len(reparsed) =>
                 /\ Get(reparsed[k], W_date_str) = records[k][W_date_str]
                 /\ \A n \in 1..Len(PriceFields) :
                       Get(reparsed[k], PriceFields[n]) = Rounded(records[k][PriceFields[n]])

\* the part of C13 that the code satisfies: the number of records
C13_SameCount == pc = "reparsed" => Len(reparsed) = Len(records)

\* ------------------------------------------------------------------------
\* C14: on each page, at no time are two loads of the page's data in flight:
\* no countdown tick, interval timer or refresh button starts a load while an
\* earlier one has neither resolved nor rejected.
\* ------------------------------------------------------------------------
C14_OneInFlight == Len(loads) <= 1

\* ------------------------------------------------------------------------
\* C15: no response is dropped for being old: whenever a load has just
\* resolved with a version of the file, the page holds the records parsed from
\* that version, also when a load started later had resolved before it.
\* ------------------------------------------------------------------------
C15_LastResolvedWins ==
    (last.did = "ended" /\ last.cause = "ok") =>
        stored = last.body /\ Records(stored) = parsed[last.body + 1]

\* a load that a later one had overtaken resolves and replaces the newer records
C15_Witness ==
    /\ last.did = "ended" /\ last.cause = "ok" /\ last.overtaken
    /\ loads = <<>>
    /\ last.was # last.body
    /\ stored = last.body

\* ------------------------------------------------------------------------
\* C16: when a load that ran alone ends in a response that is not OK or in a
\* transport error, the page shows its error state, and the stored records and
\* the data shown are what they were when the load began.
\* ------------------------------------------------------------------------
C16_FailedLoadKeeps ==
    (last.did = "ended" /\ last.cause # "ok" /\ last.alone /\ last.shown.kind = "data") =>
        /\ view.status \in {"disconnected", "alerted"}
        /\ stored = last.was
        /\ view.content = last.shown

\* ------------------------------------------------------------------------
\* C17: in every state a handler or timer callback can start in, on the
\* dashboard filteredAlerts is, in order, exactly the records of the current
\* alerts whose is_active is TRUE in any letter case, and on the fuel page
\* filteredData holds only rows of the current fuelData.
\* ------------------------------------------------------------------------
Ascending(rows) == \A k \in 1..(Len(rows) - 1) : rows[k] < rows[k + 1]

C17_FilteredFromStored ==
    /\ page = "alerts" =>
        /\ filtered.of = stored
        /\ Ascending(filtered.rows)
        /\ \A i \in 1..Len(Records(stored)) :
              (\E k \in 1..Len(filtered.rows) : filtered.rows[k] = i)
              <=> (/\ W_is_active \in DOMAIN Records(stored)[i]
                   /\ toLowerCase(Records(stored)[i][W_is_active].s) = W_true)
        /\ \A k \in 1..Len(filtered.rows) : filtered.rows[k] \in 1..Len(Records(stored))
    /\ page = "fuel" =>
        /\ filtered.of = stored
        /\ \A k \in 1..Len(filtered.rows) : filtered.rows[k] \in 1..Len(Records(stored))

\* a load of the dashboard has stored alerts of which one, flagged in small
\* letters, is kept and another is left out
C17_Witness ==
    /\ page = "alerts" /\ last.did = "ended" /\ last.cause = "ok"
    /\ \E i \in 1..Len(Records(stored)) :
          /\ \E k \in 1..Len(filtered.rows) : filtered.rows[k] = i
          /\ Records(stored)[i][W_is_active].s # W_TRUE
    /\ Len(filtered.rows) < Len(Records(stored))

\* ------------------------------------------------------------------------
\* C18: every load that neither init nor a button started is started by the
\* countdown reaching zero, which then shows the full interval again (120 on
\* the dashboard and the news page, 30 on the weather and fuel pages); no other
\* timer starts a load.
\* ------------------------------------------------------------------------
C18_CountdownStartsLoads ==
    (last.did = "started" /\ last.by \notin {"init", "manual"}) =>
        /\ last.by = "countdown"
        /\ refreshCountdown = (IF page \in {"alerts", "news"} THEN 120 ELSE 30)

\* ------------------------------------------------------------------------
\* C21: in the news parser a column's value is stored under the canonical
\* field of its header, or under the header's own lowercased name when the
\* header has no alias
\* ------------------------------------------------------------------------
W_Headline == <<"H", "e", "a", "d", "l", "i", "n", "e">>

\* the cells of the header line as the file has them
RawHeaders == split(Lines(csvText)[1], COMMA)

\* the alias table: the field a header name stands for
C21_Field(name) ==
    CASE name = W_headline -> W_title
      [] name \in {W_description, W_content} -> W_summary
      [] name = W_sub_type -> W_subcategory
      [] name \in {W_region, W_area} -> W_location
      [] name \in {W_severity, W_importance} -> W_impact
      [] name \in {W_time, W_timestamp, W_published_date} -> W_date
      [] OTHER -> name

\* the columns whose value is copied as it is: all but category and type
C21_Copied(name) == name \notin {W_category, W_type}

\* the claim as stated: every column, its header trimmed and lowercased
C21_Original ==
    (pc = "done" /\ page = "news") =>
        \A k \in 1..Len(records) : \A h \in 1..Len(RawHeaders) :
            LET name == toLowerCase(trim(RawHeaders[h]))
            IN C21_Copied(name)
               => Get(records[k], C21_Field(name)) = Str(Cell(tokens[k], h))

\* C21 as amended: a header is trimmed, loses one layer of surrounding double
\* quotes and is lowercased; of several columns that go to the same field the
\* last one is the one stored
C21_AliasTable ==
    (pc = "done" /\ page = "news") =>
        \A k \in 1..Len(records) : \A h \in 1..Len(RawHeaders) :
            LET Name(c) == toLowerCase(StripQuotes(trim(RawHeaders[c])))
                field == C21_Field(Name(h))
            IN (/\ C21_Copied(Name(h))
                /\ field # W_category
                /\ \A c \in (h + 1)..Len(RawHeaders) : C21_Field(Name(c)) # field)
               => Get(records[k], field) = Str(Cell(tokens[k], h))

C21_Witness ==
    /\ pc = "done" /\ page = "news"
    /\ \E k \in 1..Len(records) : \E h \in 1..Len(RawHeaders) :
          /\ RawHeaders[h] = W_Headline
          /\ Cell(tokens[k], h) = W_Transport
          /\ records[k][W_title] = Str(W_Transport)
          /\ W_headline \notin DOMAIN records[k]

\* ------------------------------------------------------------------------
\* C22: on the alerts and news pages, stripping the surrounding double quotes
\* of a tokenized value a second time changes nothing
\* ------------------------------------------------------------------------
C22_StripIdempotent ==
    (pc = "done" /\ page \in {"alerts", "news"}) =>
        \A k \in 1..Len(records) : \A p \in 1..Len(tokens[k]) :
            StripQuotes(StripQuotes(tokens[k][p])) = StripQuotes(tokens[k][p])

\* a line that opens and closes with two double quotes has been tokenized and
\* its value stored
C22_Witness ==
    /\ pc = "done" /\ page \in {"alerts", "news"}
    /\ \E k \in 1..Len(records) :
          /\ Len(rowLines[k]) >= 4
          /\ SubSeq(rowLines[k], 1, 2) = <<DQ, DQ>>
          /\ SubSeq(rowLines[k], Len(rowLines[k]) - 1, Len(rowLines[k])) = <<DQ, DQ>>
          /\ Len(tokens[k]) = 1
          /\ Get(records[k], PropertyOf(PageHeaders[1])) = Str(StripQuotes(tokens[k][1]))

\* ------------------------------------------------------------------------
\* C24: on the dashboard currentAlertIndex is always a whole number from 0 to
\* below max(1, number of active alerts), whatever loads, clicks, arrow keys,
\* indicator clicks and auto-slide ticks have happened
\* ------------------------------------------------------------------------
Max(a, b) == IF a > b THEN a ELSE b

C24_IndexInRange ==
    page = "alerts" =>
        /\ ~currentAlertIndex.nan
        /\ currentAlertIndex.n >= 0
        /\ currentAlertIndex.n < Max(1, Len(filtered.rows))

\* ------------------------------------------------------------------------
\* C28: with n >= 1 active alerts nextAlert moves the index i to (i + 1) mod n
\* and prevAlert to (i - 1 + n) mod n, and either one followed by the other
\* brings the index back to i
\* ------------------------------------------------------------------------
C28_Moves ==
    LET n == Len(filtered.rows)
        i == currentAlertIndex
        next == goToAlert(i, nextIndex(i, n), n)
        prev == goToAlert(i, prevIndex(i, n), n)
    IN (page = "alerts" /\ n >= 1) =>
           /\ ~i.nan /\ i.n \in 0..(n - 1)
           /\ next = Index((i.n + 1) % n)
           /\ prev = Index((i.n - 1 + n) % n)
           /\ goToAlert(next, prevIndex(next, n), n) = i
           /\ goToAlert(prev, nextIndex(prev, n), n) = i

C28_Steps ==
    LET n == Len(filtered.rows)
    IN (page = "alerts" /\ n >= 1) =>
           /\ NextAlert => currentAlertIndex' = Index((currentAlertIndex.n + 1) % n)
           /\ PrevAlert => currentAlertIndex' = Index((currentAlertIndex.n - 1 + n) % n)

C28_NextPrev == []C28_Moves /\ [][C28_Steps]_vars

\* the carousel has moved off the first of several alerts
C28_Witness ==
    /\ page = "alerts" /\ phase = "running"
    /\ Len(filtered.rows) >= 2
    /\ currentAlertIndex = Index(Len(filtered.rows) - 1)

\* ------------------------------------------------------------------------
\* C29: at most one auto-slide interval is running at any time, and its tick
\* moves the carousel only when there is more than one active alert
\* ------------------------------------------------------------------------
C29_Timers ==
    page = "alerts" =>
        /\ Cardinality(timers) <= 1
        /\ alertSlideInterval # 0 => timers = {alertSlideInterval}

C29_Tick ==
    (SlideTick /\ Len(filtered.rows) <= 1) => currentAlertIndex' = currentAlertIndex

C29_OneTimer == []C29_Timers /\ [][C29_Tick]_vars

\* the interval is running and has been restarted by a move of the carousel
C29_Witness ==
    /\ page = "alerts" /\ phase = "running"
    /\ alertSlideInterval # 0 /\ timers = {alertSlideInterval}
    /\ ~currentAlertIndex.nan /\ currentAlertIndex.n > 0

\* ------------------------------------------------------------------------
\* C25: on the fuel page currentPage is always at least 1 and at most
\* max(1, ceil(rows / 10)), where rows counts the rows of filteredData that
\* the search term of the table leaves
\* ------------------------------------------------------------------------
C25_PageInRange ==
    page = "fuel" =>
        /\ currentPage >= 1
        /\ currentPage <= Max(1, ShownPages)

\* ------------------------------------------------------------------------
\* C26: on the weather and fuel pages the loading overlay is shown exactly
\* while at least one load is in flight
\* ------------------------------------------------------------------------
C26_OverlayWhileLoading ==
    page \in {"weather", "fuel"} => (view.overlay <=> loads # <<>>)

\* ------------------------------------------------------------------------
\* C27: on the fuel page filteredData is always the rows of the current
\* fuelData whose date is in the date range applied last, and all its rows
\* when none was applied or the filters were reset since
\* ------------------------------------------------------------------------
C27_InRange(row) ==
    \/ appliedRange = <<>>
    \/ /\ DateKey(Get(row, W_date).s) >= DateKey(appliedRange[1])
       /\ DateKey(Get(row, W_date).s) <= DateKey(appliedRange[2])

C27_RangeKept ==
    page = "fuel" =>
        /\ filtered.of = stored
        /\ Ascending(filtered.rows)
        /\ \A i \in 1..Len(Records(stored)) :
              (\E k \in 1..Len(filtered.rows) : filtered.rows[k] = i)
              <=> C27_InRange(Records(stored)[i])

\* ------------------------------------------------------------------------
\* C30: on the news page filteredNews is, in the order of allNews, exactly the
\* items that have the search term in the title or the summary and are of the
\* selected category, and newsByCategory splits filteredNews into groups:
\* every item is in the group of its own category and in no other, no group
\* is empty, and the groups together have as many items as filteredNews
\* ------------------------------------------------------------------------
C30_Text(news, field) == IF field \in DOMAIN news THEN toLowerCase(news[field].s) ELSE <<>>

C30_Selected(news) ==
    /\ \/ searchTerm = <<>>
       \/ includes(C30_Text(news, W_title), toLowerCase(searchTerm))
       \/ includes(C30_Text(news, W_summary), toLowerCase(searchTerm))
    /\ \/ selectedCategory = W_all
       \/ news[W_category].s = selectedCategory


C30_FilterAndGroup ==
    page = "news" =>
        LET news == Records(stored)
            places == UNION {{<<c, k>> : k \in 1..Len(newsByCategory[c])} :
                                c \in DOMAIN newsByCategory}
        IN /\ filtered.of = stored
           /\ Ascending(filtered.rows)
           /\ \A i \in 1..Len(news) :
                 (\E k \in 1..Len(filtered.rows) : filtered.rows[k] = i)
                 <=> C30_Selected(news[i])
           /\ \A c \in DOMAIN newsByCategory :
                 /\ newsByCategory[c] # <<>>
                 /\ Ascending(newsByCategory[c])
                 /\ \A k \in 1..Len(newsByCategory[c]) :
                       news[newsByCategory[c][k]][W_category].s = c
           /\ \A k \in 1..Len(filtered.rows) :
                 Cardinality({pl \in places :
                                 newsByCategory[pl[1]][pl[2]] = filtered.rows[k]}) = 1
           /\ Cardinality(places) = Len(filtered.rows)

\* a search term and a category are in force and leave some of the news
C30_Witness ==
    /\ page = "news" /\ phase = "running"
    /\ searchTerm # <<>> /\ selectedCategory # W_all
    /\ filtered.rows # <<>>
    /\ Len(filtered.rows) < Len(Records(stored))
    /\ DOMAIN newsByCategory = {selectedCategory}

\* ------------------------------------------------------------------------
\* C23: every response of the file server to GET /alerts and GET /news-data
\* has the Content-Type text/csv, and its body is the content of the file when
\* the file exists and the word empty when it does not
\* ------------------------------------------------------------------------
C23_CsvResponses ==
    (page = "server" /\ response # NoResponse) =>
        /\ response.contentType = "text/csv"
        /\ response.body = IF disk[response.route].exists
                           THEN disk[response.route].content
                           ELSE W_empty

====
